---------------------------- MODULE Spec2Model ----------------------------
(***************************************************************************)
(* Board-scoped real-time synchronisation server of getsticky             *)
(* (GetStickyWSServer on top of the SQLite graph store).                   *)
(*                                                                         *)
(* One action per event-loop callback: a WebSocket 'connection', a         *)
(* 'message', a 'close' or 'error' event, a POST /notify request, and the  *)
(* continuations of an ask_claude query (a streamed chunk, the backend's   *)
(* completion, the backend's failure).                                     *)
(***************************************************************************)
EXTENDS Integers, Sequences, FiniteSets, TLC

(* ------------------------------ bounds --------------------------------- *)
\* connections that may be opened during a run
MaxConns == 2
\* inbound requests (WebSocket messages and bridge calls) during a run
MaxReq == 2
\* node / edge ids a request may name
MaxIds == 2
\* queries awaiting the LLM backend at the same time
MaxInflight == 1
\* chunks the backend streams for one query
MaxChunks == 2
\* nodes that the MCP tools create
MaxNodes == 3
\* the stamping writes a tool makes to one row at most
MaxStamps == 2

Conns == 1..MaxConns
Ids == 1..MaxIds

(* --------------------------- value domains ----------------------------- *)
\* JavaScript undefined / a URL parameter that is absent
Undefined == "<undefined>"
\* JavaScript null for ids
Null == 0
\* JavaScript undefined for ids
UndefId == -1
\* values of the connect-time 'board' URL parameter
BoardParams == {Undefined, "", "b1"}
\* joinParam of a connection that has not been accepted yet
NotYet == "<not connected>"
Boards == {"default", "b1", "b2"}
RequestIds == {Undefined, "r1"}

VALID_WS_TYPES ==
    { "create_node", "update_node", "delete_node",
      "create_edge", "update_edge", "delete_edge",
      "add_context", "search_context",
      "ask_claude", "comment_ask_claude",
      "get_settings", "update_settings",
      "create_board", "delete_board", "list_boards",
      "list_projects", "create_project", "delete_project", "get_project_boards",
      "update_viewport" }

VARIABLES
    readyState,     \* [Conns -> {"NONE","OPEN","CLOSING","CLOSED"}]  ws.readyState
    joinParam,      \* [Conns -> BoardParams]  the 'board' parameter of the connect URL
    boardClients,   \* Map<boardId, Set<WebSocket>>
    clientBoard,    \* Map<WebSocket, boardId>
    inbox,          \* [Conns -> Seq(WSResponse)]  what ws.send() delivered, in order
    nodes,          \* rows of table nodes
    edges,          \* rows of table edges
    context_chain,  \* rows of table context_chain
    nextNode,       \* next fresh node id (uuidv4)
    nextEdge,       \* next fresh edge id (uuidv4)
    nextCtx,        \* AUTOINCREMENT of context_chain
    settings,       \* the settings table: agent_name, anthropic_api_key
    anthropic,      \* the Anthropic client: Null or the key it was built with
    queries,        \* ask_claude handlers suspended on the LLM backend
    httpStatus,     \* status of the last POST /notify response (0: none yet)
    nreq,           \* number of inbound requests handled so far
    bcastLog,       \* history: the boards of the broadcasts made, in order
    removeCalls,    \* history: [Conns -> Nat]  calls of removeClient per connection
    boards,         \* rows of table boards: board id -> its project and viewport
    projects,       \* rows of table projects: the project ids
    toolResult,     \* what the last call of an MCP tool returned
    hung,           \* the processes spinning in a loop that never ends
    awaiting,       \* message handlers suspended at  await this.db.<call>(...)
    client          \* the browser's WebSocketClient: its fields, sockets and timers

registry == <<boardClients, clientBoard>>
conn == <<readyState, joinParam>>
store == <<nodes, edges, context_chain, nextNode, nextEdge, nextCtx>>
config == <<settings, anthropic>>
extra == <<boards, projects, toolResult, hung, awaiting, client>>
\* all that the server's processes hold
server == <<readyState, joinParam, boardClients, clientBoard, inbox, nodes, edges,
            context_chain, nextNode, nextEdge, nextCtx, settings, anthropic,
            queries, httpStatus, nreq, bcastLog, removeCalls, boards, projects,
            toolResult, hung, awaiting>>
vars == <<readyState, joinParam, boardClients, clientBoard, inbox, nodes, edges,
          context_chain, nextNode, nextEdge, nextCtx, settings, anthropic,
          queries, httpStatus, nreq, bcastLog, removeCalls, boards, projects,
          toolResult, hung, awaiting, client>>

(* ----------------------------- messages -------------------------------- *)
\* a text is the sequence of the pieces it was put together from
NoText == <<>>

\* the members of a JSON object that the model tells apart; a member that the
\* object does not have maps to Undefined
ContentKeys == {"text", "color", "position"}
EmptyObject == [k \in ContentKeys |-> Undefined]
\* JavaScript undefined where an object is expected
NoObject == [k \in ContentKeys |-> "<no object>"]

\* content: the JSON content of the node; question, response: the members of the
\* content of a 'conversation' node;
\* updated_at: how many writes have stamped the row since it was inserted (the
\* column starts as the time of the insert);
\* qid is history, not stored: the number of the query that created the node (0: none)
NoNode ==
    [id |-> Null, type |-> "", parent_id |-> Null, board_id |-> "",
     question |-> "", response |-> NoText, context |-> NoText, qid |-> 0,
     content |-> EmptyObject, updated_at |-> 0]
NoEdge == [id |-> Null, source_id |-> Null, target_id |-> Null, label |-> ""]
NoSettings == [agent_name |-> "", anthropic_api_key |-> ""]
\* JavaScript null where a viewport {x, y, zoom} is expected
NoViewport == [x |-> "null", y |-> "null", zoom |-> "null"]

\* the data member of a WSResponse; sub is data.type ('initial_state'), chunk is
\* data.chunk of a partial result, payload the opaque data of a bridge event
Data(sub, node, edge, ns, es, st) ==
    [sub |-> sub, node |-> node, edge |-> edge, nodes |-> ns, edges |-> es, settings |-> st,
     chunk |-> NoText, payload |-> "", viewport |-> NoViewport]
NoData == Data("", NoNode, NoEdge, {}, {}, NoSettings)
NodeData(n) == Data("", n, NoEdge, {}, {}, NoSettings)
EdgeData(e) == Data("", NoNode, e, {}, {}, NoSettings)
IdData(id) == Data("", [NoNode EXCEPT !.id = id], NoEdge, {}, {}, NoSettings)
ChunkData(text) == [NoData EXCEPT !.chunk = text]
PayloadData(d) == [NoData EXCEPT !.payload = d]

\* {type, data, error, requestId} plus history fields that are not on the wire:
\*   bid    index in bcastLog of the broadcast that carried it (0: a direct send)
\*   origin board on which the request that caused it was issued ("": none)
\*   via    how the request that caused it came in: "ws", "bridge" ("": no request)
\*   qid    number of the query it belongs to (0: none)
WSResponse(type, data, error, requestId) ==
    [type |-> type, data |-> data, error |-> error, requestId |-> requestId,
     bid |-> 0, origin |-> "", via |-> "", qid |-> 0]

\* what a call of an MCP tool returns: isError, the text, and the node or the
\* context that the text prints
ToolResult(isError, text, node, context) ==
    [isError |-> isError, text |-> text, node |-> node, context |-> context]
NoResult == ToolResult(FALSE, "", NoNode, NoText)

(* ------------------------- connection registry ------------------------- *)
getBoardId(ws) ==
    IF ws \in DOMAIN clientBoard THEN clientBoard[ws] ELSE "default"

\* url.searchParams.get('board') || 'default': null and '' are both falsy
BoardOfUrl(param) ==
    IF param = Undefined \/ param = "" THEN "default" ELSE param

\* addClientToBoard without  this.clientBoard.set(ws, boardId)
addClientToBoard_clientBoard_unset(ws, boardId) ==
    clientBoard

\* the two maps after addClientToBoard(ws, boardId)
addClientToBoard_clientBoard(ws, boardId) ==
    [c \in DOMAIN clientBoard \cup {ws} |-> IF c = ws THEN boardId ELSE clientBoard[c]]

addClientToBoard_boardClients(ws, boardId) ==
    [b \in DOMAIN boardClients \cup {boardId} |->
        IF b = boardId
        THEN (IF b \in DOMAIN boardClients THEN boardClients[b] ELSE {}) \cup {ws}
        ELSE boardClients[b]]

\* the two maps after removeClient(ws)
removeClient_boardClients(ws) ==
    IF ws \in DOMAIN clientBoard
    THEN LET boardId == clientBoard[ws] IN
         IF boardId \in DOMAIN boardClients
         THEN LET clients == boardClients[boardId] \ {ws} IN
              IF clients = {}
              THEN [b \in DOMAIN boardClients \ {boardId} |-> boardClients[b]]
              ELSE [boardClients EXCEPT ![boardId] = clients]
         ELSE boardClients
    ELSE boardClients

\* removeClient without  this.clientBoard.delete(ws)
removeClient_clientBoard_kept(ws) ==
    clientBoard

removeClient_clientBoard(ws) ==
    [c \in DOMAIN clientBoard \ {ws} |-> clientBoard[c]]

(* ------------------------------ sending -------------------------------- *)
send(ib, ws, response) ==
    IF readyState[ws] = "OPEN" THEN [ib EXCEPT ![ws] = Append(@, response)] ELSE ib

\* broadcastToBoard without the readyState test
broadcastToBoard_anyState(ib, response, boardId) ==
    IF boardId \in DOMAIN boardClients
    THEN [c \in Conns |->
            IF c \in boardClients[boardId] THEN Append(ib[c], response) ELSE ib[c]]
    ELSE ib

broadcastToBoard(ib, response, boardId) ==
    IF boardId \in DOMAIN boardClients
    THEN [c \in Conns |->
            IF c \in boardClients[boardId] /\ readyState[c] = "OPEN"
            THEN Append(ib[c], response) ELSE ib[c]]
    ELSE ib

broadcastToAll(ib, response) ==
    [c \in Conns |->
        IF (\E b \in DOMAIN boardClients : c \in boardClients[b]) /\ readyState[c] = "OPEN"
        THEN Append(ib[c], response) ELSE ib[c]]

sendError(ib, ws, error, requestId) ==
    send(ib, ws, WSResponse("error", NoData, error, requestId))


(* ----------------------------- history --------------------------------- *)
\* the board a connection is registered on ("" when it has no entry)
RegisteredOn(c) ==
    IF c \in DOMAIN clientBoard THEN clientBoard[c] ELSE ""

\* the connections registered on board b (by the reverse map) that are open
OpenOn(b) ==
    {c \in Conns : RegisteredOn(c) = b /\ readyState[c] = "OPEN"}

OpenAnywhere ==
    {c \in Conns : c \in DOMAIN clientBoard /\ readyState[c] = "OPEN"}

\* the messages appended by this step get the origin of the request that caused them
Stamp(ib, origin, via) ==
    [c \in Conns |->
        [i \in 1..Len(ib[c]) |->
            IF i > Len(inbox[c])
            THEN [ib[c][i] EXCEPT !.origin = origin, !.via = via]
            ELSE ib[c][i]]]

\* the messages appended by this step belong to query number qid
StampQuery(ib, qid) ==
    [c \in Conns |->
        [i \in 1..Len(ib[c]) |->
            IF i > Len(inbox[c]) THEN [ib[c][i] EXCEPT !.qid = qid] ELSE ib[c][i]]]

\* a response about to be broadcast as the k-th broadcast of this step
Bcast(m, k) ==
    [m EXCEPT !.bid = Len(bcastLog) + k]

\* the connections registered on board b that are not open
NotOpenOn(b) ==
    {c \in Conns : RegisteredOn(c) = b /\ readyState[c] # "OPEN"}

LogEntry(boardId) ==
    [board |-> boardId, open |-> OpenOn(boardId), skipped |-> NotOpenOn(boardId)]

(* --------------------------- graph store ------------------------------- *)
NodeIdsStored == {n.id : n \in nodes}
EdgeIdsStored == {e.id : e \in edges}

getNode(id) ==
    IF id \in NodeIdsStored THEN CHOOSE n \in nodes : n.id = id ELSE NoNode

\* INSERT INTO nodes: type is NOT NULL, parent_id REFERENCES nodes(id)
createNode_accepts(type, parent_id) ==
    /\ type # Undefined
    /\ parent_id = Null \/ parent_id \in NodeIdsStored

NewNode(id, type, parent_id, board_id) ==
    [NoNode EXCEPT !.id = id, !.type = type, !.parent_id = parent_id, !.board_id = board_id]

\* a delete that leaves the edges of the node where they are
deleteNode_edges_kept(id) ==
    edges

\* DELETE FROM nodes WHERE id = ?: children keep living with parent_id NULL
\* (ON DELETE SET NULL); edges and context rows of the node go (ON DELETE CASCADE)
deleteNode_nodes(id) ==
    {IF n.parent_id = id THEN [n EXCEPT !.parent_id = Null] ELSE n :
        n \in {m \in nodes : m.id # id}}

\* the edges table after the delete
deleteNode_edges(id) ==
    {e \in edges : e.source_id # id /\ e.target_id # id}

deleteNode_context(id) ==
    {x \in context_chain : x.node_id # id}

\* INSERT INTO edges: both ends REFERENCES nodes(id)
createEdge_accepts(source_id, target_id) ==
    source_id \in NodeIdsStored /\ target_id \in NodeIdsStored

NewEdge(id, source_id, target_id, label) ==
    [id |-> id, source_id |-> source_id, target_id |-> target_id, label |-> label]

\* the graph of one board
exportGraph_nodes(boardId) ==
    {n \in nodes : n.board_id = boardId}

exportGraph_edges(boardId) ==
    {e \in edges : getNode(e.source_id).board_id = boardId}

(* ------------------------- context inheritance ------------------------ *)
\* the two line feeds that join puts between two contexts
Sep == "\n\n"

\* a context string as a text: '' has no pieces
Text(str) ==
    IF str \in {Undefined, ""} THEN NoText ELSE <<str>>

\* what a call that never returns hands back
NeverReturns == <<"<never returns>">>

\* contexts.push(context): the context is put behind those already collected
unshift_push(contexts, context) == Append(contexts, context)

\* contexts.unshift(context)
unshift(contexts, context) == <<context>> \o contexts

\* contexts.join('\n\n')
RECURSIVE join(_)
join(contexts) ==
    IF contexts = <<>> THEN NoText
    ELSE IF Len(contexts) = 1 THEN contexts[1]
    ELSE contexts[1] \o <<Sep>> \o join(Tail(contexts))

\* while (currentNode) { ... }: the contexts collected when the loop is left.
\* The walk is deterministic, so one that is still on a node after as many
\* rounds as there are rows is on a node it has been on before and goes round for ever.
RECURSIVE getInheritedContext_loop(_, _, _)
getInheritedContext_loop(currentNode, contexts, rounds) ==
    IF currentNode = NoNode THEN contexts
    ELSE IF rounds = 0 THEN <<NeverReturns>>
    ELSE getInheritedContext_loop(
            IF currentNode.parent_id # Null THEN getNode(currentNode.parent_id) ELSE NoNode,
            IF currentNode.context # NoText THEN unshift(contexts, currentNode.context)
            ELSE contexts,
            rounds - 1)

getInheritedContext(nodeId) ==
    LET node == getNode(nodeId) IN
    IF node = NoNode \/ node.parent_id = Null
    THEN node.context
    ELSE LET contexts == getInheritedContext_loop(node, <<>>, Cardinality(nodes)) IN
         IF contexts = <<NeverReturns>> THEN NeverReturns ELSE join(contexts)

\* branchNode(parentId, newNodeData): the row it inserts
branchNode(parentId, id, type) ==
    [NewNode(id, type, parentId, "default") EXCEPT !.context = getInheritedContext(parentId)]

(* ------------------------- boards and projects ------------------------- *)
\* a JSON value of a viewport member: Undefined (no such member), "null", a
\* string or a number
JsonNumbers == {"0", "5"}
JsonValues == {Undefined, "null", "'5'"} \cup JsonNumbers

\* Number.isFinite(v): JSON has no NaN and no Infinity
NumberIsFinite(v) == v \in JsonNumbers

NewBoard(projectId) == [project |-> projectId, viewport |-> NoViewport]

\* the board that exists from the start
DefaultBoards == [b \in {"default"} |-> NewBoard("default")]

getBoardViewport(boardId) ==
    IF boardId \in DOMAIN boards THEN boards[boardId].viewport ELSE NoViewport

\* updateBoardViewport(boardId, x, y, zoom): the board is made on first reference
updateBoardViewport(boardId, x, y, zoom) ==
    [b \in DOMAIN boards \cup {boardId} |->
        IF b = boardId
        THEN [(IF b \in DOMAIN boards THEN boards[b] ELSE NewBoard("default")) EXCEPT
                    !.viewport = [x |-> x, y |-> y, zoom |-> zoom]]
        ELSE boards[b]]

\* deleteBoard(id): the board goes, and with it its nodes and what hangs on them
deleteBoards_boards(ids) ==
    [b \in DOMAIN boards \ ids |-> boards[b]]

deleteBoards_nodes(ids) ==
    {IF getNode(n.parent_id).board_id \in ids THEN [n EXCEPT !.parent_id = Null] ELSE n :
        n \in {m \in nodes : m.board_id \notin ids}}

deleteBoards_edges(ids) ==
    {e \in edges : getNode(e.source_id).board_id \notin ids
                    /\ getNode(e.target_id).board_id \notin ids}

deleteBoards_context(ids) ==
    {x \in context_chain : getNode(x.node_id).board_id \notin ids}

\* the boards of a project
getBoardsForProject(projectId) ==
    {b \in DOMAIN boards : boards[b].project = projectId}

(* ------------------------------ settings ------------------------------- *)
GoodKey == "sk-ant-0123456789abcdef"

\* input.replace(/<[^>]*>/g, '').trim().slice(0, 50) on the names of the model
sanitizeDisplayName(input) ==
    IF input = "<b></b>" THEN "" ELSE input

\* apiKey.startsWith('sk-') && apiKey.length >= 20 on the keys of the model
ApiKeyFormatOk(apiKey) ==
    apiKey = GoodKey

maskApiKey(key) ==
    "sk-...cdef"

\* the settings as they are stored
getMaskedSettings_raw ==
    settings

getMaskedSettings ==
    IF settings.anthropic_api_key # ""
    THEN [settings EXCEPT !.anthropic_api_key = maskApiKey(@)]
    ELSE settings


(* --------------------------- inbound payloads -------------------------- *)
\* A payload is what JSON.parse makes of the frame:
\*   json   "invalid" (parse throws), "null", "primitive", "array" or "object"
\*   type   Undefined, NonString or a string
\*   data   "absent", "null", "array", "primitive" or "object"
\*   id     Undefined or a correlation token
\* and the members of data that the handlers read: a, b (node and edge ids),
\* parent, ntype (data.type), label, question, stream, agentName, apiKey,
\* content, partial (data.data), position, context, target (the id of a board
\* or a project), x, y, zoom.
NonString == "<number>"

Payload(json, type, data, id, a, b, parent, ntype, label, question, stream, agentName, apiKey) ==
    [json |-> json, type |-> type, data |-> data, id |-> id, a |-> a, b |-> b,
     parent |-> parent, ntype |-> ntype, label |-> label, question |-> question,
     stream |-> stream, agentName |-> agentName, apiKey |-> apiKey,
     content |-> NoObject, partial |-> NoObject, position |-> Undefined,
     context |-> Undefined, target |-> Undefined,
     x |-> Undefined, y |-> Undefined, zoom |-> Undefined]

Bare(json, type, data, id) ==
    Payload(json, type, data, id, UndefId, UndefId, UndefId, Undefined, Undefined,
            Undefined, FALSE, Undefined, Undefined)

DataKinds == {"absent", "null", "array", "primitive", "object"}

\* typeof parsed.data
typeofData(data) ==
    CASE data = "absent" -> "undefined"
      [] data = "primitive" -> "string"
      [] OTHER -> "object"

\* does  const { ... } = message.data  throw a TypeError
DestructureThrows(p) ==
    p.data \in {"absent", "null"}

MalformedPayloads ==
    {Bare(j, Undefined, "absent", Undefined) : j \in {"invalid", "null", "primitive", "array"}}
    \cup {Bare("object", t, d, i) :
            t \in {Undefined, NonString, "subscribe"}, d \in {"absent", "object"}, i \in RequestIds}
    \cup {Bare("object", t, d, i) :
            t \in {"create_node", "get_settings", "update_settings"},
            d \in DataKinds \ {"object"}, i \in RequestIds}

NodePayloads ==
    {Payload("object", "create_node", "object", i, UndefId, UndefId, par, "richtext",
             Undefined, Undefined, FALSE, Undefined, Undefined) :
        i \in {"r1"}, par \in {UndefId} \cup Ids}
    \cup {Payload("object", "update_node", "object", i, a, UndefId, par, Undefined,
             Undefined, Undefined, FALSE, Undefined, Undefined) :
        i \in {"r1"}, a \in Ids, par \in {UndefId, Null} \cup Ids}
    \cup {Payload("object", t, "object", i, a, UndefId, UndefId, Undefined,
             Undefined, Undefined, FALSE, Undefined, Undefined) :
        t \in {"delete_node", "add_context"}, i \in {"r1"}, a \in Ids}

EdgePayloads ==
    {Payload("object", "create_edge", "object", i, a, b, UndefId, Undefined,
             l, Undefined, FALSE, Undefined, Undefined) :
        i \in {"r1"}, a \in Ids, b \in Ids, l \in {Undefined}}
    \cup {Payload("object", t, "object", i, a, UndefId, UndefId, Undefined,
             Undefined, Undefined, FALSE, Undefined, Undefined) :
        t \in {"update_edge", "delete_edge"}, i \in {"r1"}, a \in Ids}

QueryPayloads ==
    {Payload("object", "ask_claude", "object", i, UndefId, UndefId, par, Undefined,
             Undefined, q, s, Undefined, Undefined) :
        i \in {"r1"}, par \in {UndefId} \cup Ids, q \in {"q"}, s \in BOOLEAN}
    \cup {Payload("object", "ask_claude", d, "r1", UndefId, UndefId, UndefId, Undefined,
             Undefined, Undefined, FALSE, Undefined, Undefined) : d \in {"object", "array"}}

SettingsPayloads ==
    {Bare("object", "get_settings", "object", i) : i \in {"r1"}}
    \cup {Payload("object", "update_settings", "object", i, UndefId, UndefId, UndefId,
             Undefined, Undefined, Undefined, FALSE, n, k) :
        i \in {"r1"}, n \in {Undefined, "<b></b>", "Bot"},
        k \in {Undefined, "", "sk-short", GoodKey}}

\* comment_ask_claude: a is data.node_id; question stands for data.messages, the
\* thread so far (Undefined: no messages member)
CommentPayloads ==
    {Payload("object", "comment_ask_claude", d, "r1", a, UndefId, UndefId, Undefined,
             Undefined, q, FALSE, Undefined, Undefined) :
        d \in {"object", "null"}, a \in {1}, q \in {Undefined, "thread"}}

Payloads ==
    MalformedPayloads \cup NodePayloads \cup EdgePayloads \cup QueryPayloads
        \cup SettingsPayloads \cup CommentPayloads

\* the members read from data: an array has none of them
Members(p) ==
    IF p.data = "array"
    THEN Bare(p.json, p.type, p.data, p.id)
    ELSE p


(* ------------------------- browser: WebSocketClient -------------------- *)
\* config.maxReconnectAttempts
MaxReconnectAttempts == 2
\* sockets the client creates at most
MaxSockets == 5
\* calls of connect() and disconnect() the application makes at most
MaxCalls == 3

\* the fields of a WebSocketClient after its constructor. sockets: the readyState
\* of every WebSocket it has created (a socket is named by its place), timers:
\* the pending setTimeout callbacks in the order they were set, which is the
\* order they run in, the delay being the same for all; a timer is named by the
\* socket whose close scheduled it; ws and reconnectTimer are Null when null.
\* history: emitted counts the 'max_reconnect_attempts' events, sinceOpen the
\* sockets that timers have created since the last onopen, stopped tells that
\* disconnect() was the application's last call, calls counts its calls
NewClient ==
    [state |-> "disconnected", reconnectAttempts |-> 0, ws |-> Null,
     reconnectTimer |-> Null, sockets |-> <<>>, timers |-> <<>>,
     emitted |-> 0, sinceOpen |-> 0, stopped |-> FALSE, calls |-> 0]

SocketIds == 1..MaxSockets

\* clearTimeout(handle)
clearTimeout(timers, handle) ==
    LET Other(t) == t # handle IN SelectSeq(timers, Other)

\* connect(): nothing when connected or connecting, else a new socket
connect(cl) ==
    IF cl.state \in {"connected", "connecting"} THEN cl
    ELSE [cl EXCEPT !.state = "connecting",
                    !.ws = Len(cl.sockets) + 1,
                    !.sockets = Append(@, "CONNECTING")]

\* ws.close(): a socket that is connecting or open starts closing; its close
\* event comes later
close(sockets, ws) ==
    IF ws # Null /\ sockets[ws] \in {"CONNECTING", "OPEN"}
    THEN [sockets EXCEPT ![ws] = "CLOSING"] ELSE sockets

\* disconnect(): clearTimeout(reconnectTimer), ws.close(), state = 'disconnected'
disconnect(cl) ==
    [cl EXCEPT !.timers = clearTimeout(@, cl.reconnectTimer),
               !.reconnectTimer = Null,
               !.sockets = close(@, cl.ws),
               !.ws = Null,
               !.state = "disconnected"]

\* attemptReconnect(), called by the onclose of socket s
attemptReconnect(cl, s) ==
    IF cl.reconnectAttempts >= MaxReconnectAttempts
    THEN [cl EXCEPT !.emitted = @ + 1]
    ELSE [cl EXCEPT !.state = "reconnecting",
                    !.reconnectAttempts = @ + 1,
                    !.timers = Append(@, s),
                    !.reconnectTimer = s]

\* the application calls connect()
AppConnect ==
    /\ client.calls < MaxCalls
    /\ Len(client.sockets) < MaxSockets
    /\ client' = [connect(client) EXCEPT !.calls = @ + 1, !.stopped = FALSE]
    /\ UNCHANGED server

\* the application calls disconnect()
AppDisconnect ==
    /\ client.calls < MaxCalls
    /\ client' = [disconnect(client) EXCEPT !.calls = @ + 1, !.stopped = TRUE]
    /\ UNCHANGED server

\* ws.onopen of socket s
SocketOpens(s) ==
    /\ s \in DOMAIN client.sockets
    /\ client.sockets[s] = "CONNECTING"
    /\ client' = [client EXCEPT !.sockets[s] = "OPEN",
                                !.state = "connected",
                                !.reconnectAttempts = 0,
                                !.sinceOpen = 0]
    /\ UNCHANGED server

\* the close event of socket s (the connection failed, was lost, or close() was
\* called): ws.onclose
SocketCloses(s) ==
    /\ s \in DOMAIN client.sockets
    /\ client.sockets[s] \in {"CONNECTING", "OPEN", "CLOSING"}
    /\ client' = attemptReconnect([client EXCEPT !.sockets[s] = "CLOSED",
                                                 !.state = "disconnected"], s)
    /\ UNCHANGED server

\* a reconnect timer runs: this.connect()
ReconnectTimerFires(t) ==
    /\ client.timers # <<>>
    /\ t = Head(client.timers)
    /\ Len(client.sockets) < MaxSockets
    /\ LET cl == connect([client EXCEPT !.timers = Tail(@)]) IN
       client' = [cl EXCEPT !.sinceOpen =
                    IF Len(cl.sockets) > Len(client.sockets) THEN @ + 1 ELSE @]
    /\ UNCHANGED server

(* ------------------------------- Init ---------------------------------- *)
Connected(c) == joinParam[c] # NotYet

\* the WebSocket server's event loop is turning
Responsive == "ws" \notin hung

Init ==
    /\ readyState = [c \in Conns |-> "OPEN"]
    /\ joinParam = [c \in Conns |-> NotYet]
    /\ boardClients = <<>>
    /\ clientBoard = <<>>
    /\ inbox = [c \in Conns |-> <<>>]
    /\ nodes = {}
    /\ edges = {}
    /\ context_chain = {}
    /\ nextNode = 1
    /\ nextEdge = 1
    /\ nextCtx = 1
    /\ settings = NoSettings
    /\ anthropic \in {"", "sk-env"}
    /\ queries = {}
    /\ httpStatus = 0
    /\ nreq = 0
    /\ bcastLog = <<>>
    /\ removeCalls = [c \in Conns |-> 0]
    /\ boards = DefaultBoards
    /\ projects = {"default"}
    /\ toolResult = NoResult
    /\ hung = {}
    /\ awaiting = {}
    /\ client = NewClient

(* ------------------------ connection lifecycle ------------------------- *)
\* sendInitialState exporting the whole store, not the connection's board
sendInitialState_unscoped(ib, ws, boardId) ==
    send(ib, ws, WSResponse("success",
            [Data("initial_state", NoNode, NoEdge, nodes, edges, NoSettings) EXCEPT
                !.viewport = getBoardViewport(boardId)],
            Undefined, Undefined))

\* sendInitialState(ws): the graph of the connection's board
sendInitialState(ib, ws, boardId) ==
    send(ib, ws, WSResponse("success",
            [Data("initial_state", NoNode, NoEdge, exportGraph_nodes(boardId),
                  exportGraph_edges(boardId), NoSettings) EXCEPT
                !.viewport = getBoardViewport(boardId)],
            Undefined, Undefined))

\* wss.on('connection'): join the board of the URL, then push the snapshot
Connect(c, param) ==
    /\ Responsive
    /\ ~Connected(c)
    /\ \A d \in Conns : d < c => Connected(d)
    /\ joinParam' = [joinParam EXCEPT ![c] = param]
    /\ boardClients' = addClientToBoard_boardClients(c, BoardOfUrl(param))
    /\ clientBoard' = addClientToBoard_clientBoard(c, BoardOfUrl(param))
    /\ inbox' = sendInitialState(inbox, c, BoardOfUrl(param))
    /\ UNCHANGED <<readyState, store, config, queries, httpStatus, nreq, bcastLog, removeCalls, extra>>

\* the peer starts the closing handshake: the socket is no longer OPEN, its
\* 'close' event has not been emitted yet
ClientClose(c) ==
    /\ Connected(c)
    /\ readyState[c] = "OPEN"
    /\ readyState' = [readyState EXCEPT ![c] = "CLOSING"]
    /\ UNCHANGED <<joinParam, registry, inbox, store, config, queries, httpStatus, nreq,
                   bcastLog, removeCalls, extra>>

\* ws.on('close')
CloseEvent(c) ==
    /\ Responsive
    /\ Connected(c)
    /\ readyState[c] = "CLOSING"
    /\ readyState' = [readyState EXCEPT ![c] = "CLOSED"]
    /\ boardClients' = removeClient_boardClients(c)
    /\ clientBoard' = removeClient_clientBoard(c)
    /\ removeCalls' = [removeCalls EXCEPT ![c] = @ + 1]
    /\ UNCHANGED <<joinParam, inbox, store, config, queries, httpStatus, nreq, bcastLog, extra>>

\* ws.on('error'): emitted once, with the socket already closing; 'close' follows
ErrorEvent(c) ==
    /\ Responsive
    /\ Connected(c)
    /\ readyState[c] \in {"OPEN", "CLOSING"}
    /\ removeCalls[c] = 0
    /\ readyState' = [readyState EXCEPT ![c] = "CLOSING"]
    /\ boardClients' = removeClient_boardClients(c)
    /\ clientBoard' = removeClient_clientBoard(c)
    /\ removeCalls' = [removeCalls EXCEPT ![c] = @ + 1]
    /\ UNCHANGED <<joinParam, inbox, store, config, queries, httpStatus, nreq, bcastLog, extra>>

(* --------------------------- message handlers -------------------------- *)
\* the response goes to the sender alone; nothing else changes
SendOnly(c, response) ==
    /\ inbox' = Stamp(send(inbox, c, response), RegisteredOn(c), "ws")
    /\ UNCHANGED <<conn, registry, store, config, queries, bcastLog, extra>>

\* a rejection that also closes the offending socket
RejectEnvelope_closing(c, error, requestId) ==
    /\ inbox' = Stamp(sendError(inbox, c, error, requestId), RegisteredOn(c), "ws")
    /\ readyState' = [readyState EXCEPT ![c] = "CLOSING"]
    /\ UNCHANGED <<joinParam, registry, store, config, queries, bcastLog, extra>>

\* ws.on('message'): a violation of the envelope is answered with sendError and
\* the handler returns
RejectEnvelope(c, error, requestId) ==
    /\ inbox' = Stamp(sendError(inbox, c, error, requestId), RegisteredOn(c), "ws")
    /\ UNCHANGED <<conn, registry, store, config, queries, bcastLog, extra>>

\* handleMessage: sendError(...); return  and the catch clause
HandlerError(c, error, requestId) ==
    /\ inbox' = Stamp(sendError(inbox, c, error, requestId), RegisteredOn(c), "ws")
    /\ UNCHANGED <<conn, registry, store, config, queries, bcastLog, extra>>

\* this.broadcastToBoard({type, data, requestId}, boardId) of a handler
BroadcastResult(c, type, data, requestId, boardId) ==
    /\ inbox' = Stamp(broadcastToBoard(inbox,
                        Bcast(WSResponse(type, data, Undefined, requestId), 1), boardId),
                      RegisteredOn(c), "ws")
    /\ bcastLog' = Append(bcastLog, LogEntry(boardId))

\* content || nodeData || {}, with position put in when there is one
create_node_content(m) ==
    LET nodeContent == IF m.content # NoObject THEN m.content
                       ELSE IF m.partial # NoObject THEN m.partial
                       ELSE EmptyObject
    IN  IF m.position # Undefined THEN [nodeContent EXCEPT !["position"] = m.position]
        ELSE nodeContent

HandleCreateNode(c, p) ==
    IF DestructureThrows(p)
    THEN HandlerError(c, "TypeError: cannot destructure", p.id)
    ELSE LET m == Members(p)
             parent_id == IF m.parent \in {UndefId, Null} THEN Null ELSE m.parent
             boardId == getBoardId(c)
             node == [NewNode(nextNode, m.ntype, parent_id, boardId) EXCEPT
                        !.content = create_node_content(m), !.context = Text(m.context)]
         IN  IF ~createNode_accepts(m.ntype, parent_id)
             THEN HandlerError(c, "SQLITE_CONSTRAINT", p.id)
             ELSE /\ nodes' = nodes \cup {node}
                  /\ nextNode' = nextNode + 1
                  /\ BroadcastResult(c, "node_created", NodeData(node), p.id, boardId)
                  /\ UNCHANGED <<conn, registry, edges, context_chain, nextEdge, nextCtx,
                                 config, queries, extra>>

\* a template literal that leaves the id out
IdString_left_out(id) == ""

\* an id as a template literal prints it
IdString(id) ==
    IF id = UndefId THEN "undefined" ELSE IF id = Null THEN "null" ELSE ToString(id)

\* { ...existingContent, ...partialData } without the spread of existingContent
merge_dropping(existingContent, partialData) ==
    IF partialData = NoObject THEN EmptyObject ELSE partialData

\* { ...existingContent, ...partialData }
merge(existingContent, partialData) ==
    [k \in ContentKeys |->
        IF partialData # NoObject /\ partialData[k] # Undefined
        THEN partialData[k] ELSE existingContent[k]]

\* the row of an existing node after the updates that update_node collects
update_node_row(existing, m) ==
    LET contented ==
            IF m.content # NoObject
            THEN [existing EXCEPT !.content = m.content, !.question = "", !.response = NoText]
            ELSE IF m.partial # NoObject \/ m.position # Undefined
            THEN LET merged == merge(existing.content, m.partial) IN
                 [existing EXCEPT !.content =
                    IF m.position # Undefined THEN [merged EXCEPT !["position"] = m.position]
                    ELSE merged]
            ELSE existing
        contexted ==
            IF m.context \notin {Undefined, ""}
            THEN [contented EXCEPT !.context = Text(m.context)] ELSE contented
    IN  IF m.parent # UndefId THEN [contexted EXCEPT !.parent_id = m.parent] ELSE contexted

\* the columns that update_node hands to updateNode for an existing node
update_node_fields(m) ==
    (IF m.content # NoObject \/ m.partial # NoObject \/ m.position # Undefined
     THEN {"content"} ELSE {})
        \cup (IF m.context \notin {Undefined, ""} THEN {"context"} ELSE {})
        \cup (IF m.parent # UndefId THEN {"parent_id"} ELSE {})

\* updateNode: with no column to set the row is returned as it is; otherwise
\* updated_at = CURRENT_TIMESTAMP is written with the columns
updateNode(existing, row, fields) ==
    IF fields = {} THEN existing
    ELSE [row EXCEPT !.updated_at = existing.updated_at + 1]

HandleUpdateNode(c, p) ==
    IF DestructureThrows(p)
    THEN HandlerError(c, "TypeError: cannot destructure", p.id)
    ELSE LET m == Members(p)
             boardId == getBoardId(c)
             existing == getNode(m.a)
             node == updateNode(existing, update_node_row(existing, m), update_node_fields(m))
         IN  IF existing = NoNode
             THEN HandlerError(c, "Node not found: " \o IdString(m.a), p.id)
             ELSE IF m.parent \notin {UndefId, Null} /\ m.parent \notin NodeIdsStored
             THEN HandlerError(c, "SQLITE_CONSTRAINT", p.id)
             ELSE /\ nodes' = (nodes \ {existing}) \cup {node}
                  /\ BroadcastResult(c, "node_updated", NodeData(node), p.id, boardId)
                  /\ UNCHANGED <<conn, registry, edges, context_chain, nextNode, nextEdge,
                                 nextCtx, config, queries, extra>>

HandleDeleteNode(c, p) ==
    IF DestructureThrows(p)
    THEN HandlerError(c, "TypeError: cannot destructure", p.id)
    ELSE LET m == Members(p)
             boardId == getBoardId(c)
         IN  IF m.a \notin NodeIdsStored
             THEN HandlerError(c, "Node not found: " \o IdString(m.a), p.id)
             ELSE /\ nodes' = deleteNode_nodes(m.a)
                  /\ edges' = deleteNode_edges(m.a)
                  /\ context_chain' = deleteNode_context(m.a)
                  /\ BroadcastResult(c, "node_deleted", IdData(m.a), p.id, boardId)
                  /\ UNCHANGED <<conn, registry, nextNode, nextEdge, nextCtx, config, queries, extra>>


HandleCreateEdge(c, p) ==
    IF DestructureThrows(p)
    THEN HandlerError(c, "TypeError: cannot destructure", p.id)
    ELSE LET m == Members(p)
             boardId == getBoardId(c)
             edge == NewEdge(nextEdge, m.a, m.b, IF m.label = Undefined THEN "" ELSE m.label)
         IN  IF ~createEdge_accepts(m.a, m.b)
             THEN HandlerError(c, "SQLITE_CONSTRAINT", p.id)
             ELSE /\ edges' = edges \cup {edge}
                  /\ nextEdge' = nextEdge + 1
                  /\ BroadcastResult(c, "edge_created", EdgeData(edge), p.id, boardId)
                  /\ UNCHANGED <<conn, registry, nodes, context_chain, nextNode, nextCtx,
                                 config, queries, extra>>

\* updateEdge(id, label ?? '')
HandleUpdateEdge(c, p) ==
    IF DestructureThrows(p)
    THEN HandlerError(c, "TypeError: cannot destructure", p.id)
    ELSE LET m == Members(p)
             boardId == getBoardId(c)
         IN  IF m.a \notin EdgeIdsStored
             THEN HandlerError(c, "Edge not found: " \o IdString(m.a), p.id)
             ELSE LET old == CHOOSE e \in edges : e.id = m.a
                      updatedEdge == [old EXCEPT !.label = IF m.label = Undefined THEN "" ELSE m.label]
                  IN  /\ edges' = (edges \ {old}) \cup {updatedEdge}
                      /\ BroadcastResult(c, "edge_updated", EdgeData(updatedEdge), p.id, boardId)
                      /\ UNCHANGED <<conn, registry, nodes, context_chain, nextNode, nextEdge,
                                     nextCtx, config, queries, extra>>

HandleDeleteEdge(c, p) ==
    IF DestructureThrows(p)
    THEN HandlerError(c, "TypeError: cannot destructure", p.id)
    ELSE LET m == Members(p)
             boardId == getBoardId(c)
         IN  IF m.a \notin EdgeIdsStored
             THEN HandlerError(c, "Edge not found: " \o IdString(m.a), p.id)
             ELSE /\ edges' = {e \in edges : e.id # m.a}
                  /\ BroadcastResult(c, "edge_deleted", IdData(m.a), p.id, boardId)
                  /\ UNCHANGED <<conn, registry, nodes, context_chain, nextNode, nextEdge,
                                 nextCtx, config, queries, extra>>

\* INSERT INTO context_chain: node_id REFERENCES nodes(id)
HandleAddContext(c, p) ==
    IF DestructureThrows(p)
    THEN HandlerError(c, "TypeError: cannot destructure", p.id)
    ELSE LET m == Members(p)
             boardId == getBoardId(c)
         IN  IF m.a \notin NodeIdsStored
             THEN HandlerError(c, "SQLITE_CONSTRAINT", p.id)
             ELSE /\ context_chain' = context_chain \cup {[id |-> nextCtx, node_id |-> m.a]}
                  /\ nextCtx' = nextCtx + 1
                  /\ BroadcastResult(c, "context_added", IdData(m.a), p.id, boardId)
                  /\ UNCHANGED <<conn, registry, nodes, edges, nextNode, nextEdge,
                                 config, queries, extra>>

HandleGetSettings(c, p) ==
    SendOnly(c, WSResponse("settings",
                    Data("", NoNode, NoEdge, {}, {}, getMaskedSettings), Undefined, p.id))

\* the settings table after the agentName step of update_settings
update_settings_name(m) ==
    IF m.agentName # Undefined
    THEN [settings EXCEPT !.agent_name = sanitizeDisplayName(m.agentName)]
    ELSE settings

HandleUpdateSettings(c, p) ==
    IF DestructureThrows(p)
    THEN HandlerError(c, "TypeError: cannot destructure", p.id)
    ELSE LET m == Members(p)
             named == update_settings_name(m)
             keyed == IF m.apiKey \notin {Undefined, ""}
                      THEN [named EXCEPT !.anthropic_api_key = m.apiKey] ELSE named
             masked == IF keyed.anthropic_api_key # ""
                       THEN [keyed EXCEPT !.anthropic_api_key = maskApiKey(@)] ELSE keyed
             msg == Bcast(WSResponse("settings", Data("", NoNode, NoEdge, {}, {}, masked),
                                     Undefined, p.id), 1)
         IN  IF m.agentName # Undefined /\ sanitizeDisplayName(m.agentName) = ""
             THEN HandlerError(c, "Agent name cannot be empty", p.id)
             ELSE IF m.apiKey \notin {Undefined, ""} /\ ~ApiKeyFormatOk(m.apiKey)
             THEN /\ settings' = named
                  /\ inbox' = Stamp(sendError(inbox, c, "Invalid API key format", p.id),
                                    RegisteredOn(c), "ws")
                  /\ UNCHANGED <<conn, registry, store, anthropic, queries, bcastLog, extra>>
             ELSE /\ settings' = keyed
                  /\ anthropic' = IF m.apiKey \notin {Undefined, ""} THEN m.apiKey ELSE anthropic
                  /\ inbox' = Stamp(broadcastToAll(inbox, msg), RegisteredOn(c), "ws")
                  /\ bcastLog' = Append(bcastLog, [board |-> "*", open |-> OpenAnywhere, skipped |-> {}])
                  /\ UNCHANGED <<conn, registry, store, queries, extra>>

\* handleClaudeQuery calling the backend without looking at this.anthropic
HandleAskClaude_unchecked(c, p) ==
    IF DestructureThrows(p)
    THEN HandlerError(c, "TypeError: cannot destructure", p.id)
    ELSE LET m == Members(p) IN
         /\ queries' = queries \cup
                {[ws |-> c, parent_id |-> m.parent, question |-> m.question,
                  stream |-> m.stream, requestId |-> p.id, fullResponse |-> NoText,
                  origin |-> RegisteredOn(c), qid |-> nreq + 1, comment |-> FALSE,
                  fullContext |-> NoText]}
         /\ UNCHANGED <<conn, registry, inbox, store, config, bcastLog, extra>>

\* the context put before the question: that of the parent chain, then the
\* request's own
fullContext(m) ==
    IF m.parent \in {UndefId, Null} THEN Text(m.context)
    ELSE LET inheritedContext == getInheritedContext(m.parent) IN
         IF inheritedContext # NoText
         THEN inheritedContext \o <<Sep>> \o Text(m.context)
         ELSE Text(m.context)

\* the handler is in a loop that it never leaves: nothing is sent, and no other
\* callback of the server runs again
Hang ==
    /\ hung' = hung \cup {"ws"}
    /\ UNCHANGED <<conn, registry, inbox, store, config, queries, bcastLog,
                   boards, projects, toolResult, awaiting, client>>

\* handleClaudeQuery up to its first await on the LLM backend
HandleAskClaude(c, p) ==
    IF anthropic = ""
    THEN HandlerError(c, "Claude API not configured", p.id)
    ELSE IF DestructureThrows(p)
    THEN HandlerError(c, "TypeError: cannot destructure", p.id)
    ELSE LET m == Members(p) IN
         IF fullContext(m) = NeverReturns
         THEN Hang
         ELSE /\ queries' = queries \cup
                    {[ws |-> c, parent_id |-> m.parent, question |-> m.question,
                      stream |-> m.stream, requestId |-> p.id, fullResponse |-> NoText,
                      origin |-> RegisteredOn(c), qid |-> nreq + 1, comment |-> FALSE,
                      fullContext |-> fullContext(m)]}
              /\ UNCHANGED <<conn, registry, inbox, store, config, bcastLog, extra>>

\* handleCommentClaudeQuery up to its await on the LLM backend; messages.map
\* throws inside the try when data has no messages member
HandleCommentAskClaude(c, p) ==
    IF anthropic = ""
    THEN HandlerError(c, "Claude API not configured", p.id)
    ELSE IF DestructureThrows(p)
    THEN HandlerError(c, "TypeError: cannot destructure", p.id)
    ELSE LET m == Members(p) IN
         IF m.question = Undefined
         THEN HandlerError(c, "Claude API error: TypeError", p.id)
         ELSE /\ queries' = queries \cup
                    {[ws |-> c, parent_id |-> m.a, question |-> m.question,
                      stream |-> FALSE, requestId |-> p.id, fullResponse |-> NoText,
                      origin |-> RegisteredOn(c), qid |-> nreq + 1, comment |-> TRUE,
                      fullContext |-> NoText]}
              /\ UNCHANGED <<conn, registry, inbox, store, config, bcastLog, extra>>

\* deleteBoard(id) of a board that exists
deleteBoard(c, id, requestId) ==
    /\ boards' = deleteBoards_boards({id})
    /\ nodes' = deleteBoards_nodes({id})
    /\ edges' = deleteBoards_edges({id})
    /\ context_chain' = deleteBoards_context({id})
    /\ inbox' = Stamp(send(inbox, c, WSResponse("board_deleted", NoData, Undefined, requestId)),
                      RegisteredOn(c), "ws")
    /\ UNCHANGED <<conn, registry, nextNode, nextEdge, nextCtx, config, queries, bcastLog,
                   projects, toolResult, hung, awaiting, client>>

HandleDeleteBoard(c, p) ==
    IF DestructureThrows(p)
    THEN HandlerError(c, "TypeError: cannot destructure", p.id)
    ELSE LET m == Members(p) IN
         IF m.target \in {Undefined, ""}
         THEN HandlerError(c, "Board ID is required", p.id)
         ELSE IF m.target \notin DOMAIN boards
         THEN HandlerError(c, "Board not found: " \o m.target, p.id)
         ELSE deleteBoard(c, m.target, p.id)

\* deleteProject(id) of a project that exists: its boards go with it
deleteProject(c, id, requestId) ==
    /\ projects' = projects \ {id}
    /\ boards' = deleteBoards_boards(getBoardsForProject(id))
    /\ nodes' = deleteBoards_nodes(getBoardsForProject(id))
    /\ edges' = deleteBoards_edges(getBoardsForProject(id))
    /\ context_chain' = deleteBoards_context(getBoardsForProject(id))
    /\ inbox' = Stamp(send(inbox, c, WSResponse("project_deleted", NoData, Undefined, requestId)),
                      RegisteredOn(c), "ws")
    /\ UNCHANGED <<conn, registry, nextNode, nextEdge, nextCtx, config, queries, bcastLog,
                   toolResult, hung, awaiting, client>>

HandleDeleteProject(c, p) ==
    IF DestructureThrows(p)
    THEN HandlerError(c, "TypeError: cannot destructure", p.id)
    ELSE LET m == Members(p) IN
         IF m.target \in {Undefined, ""}
         THEN HandlerError(c, "Project ID is required", p.id)
         ELSE IF m.target \notin projects
         THEN HandlerError(c, "Project not found: " \o m.target, p.id)
         ELSE deleteProject(c, m.target, p.id)

HandleUpdateViewport(c, p) ==
    IF DestructureThrows(p)
    THEN HandlerError(c, "TypeError: cannot destructure", p.id)
    ELSE LET m == Members(p) IN
         IF ~NumberIsFinite(m.x) \/ ~NumberIsFinite(m.y) \/ ~NumberIsFinite(m.zoom)
         THEN HandlerError(c, "Viewport requires numeric x, y, and zoom values", p.id)
         ELSE /\ boards' = updateBoardViewport(getBoardId(c), m.x, m.y, m.zoom)
              /\ inbox' = Stamp(send(inbox, c, WSResponse("success", NoData, Undefined, p.id)),
                                RegisteredOn(c), "ws")
              /\ UNCHANGED <<conn, registry, store, config, queries, bcastLog,
                             projects, toolResult, hung, awaiting, client>>

handleMessage(c, p) ==
    CASE p.type = "create_node" -> HandleCreateNode(c, p)
      [] p.type = "delete_board" -> HandleDeleteBoard(c, p)
      [] p.type = "delete_project" -> HandleDeleteProject(c, p)
      [] p.type = "update_viewport" -> HandleUpdateViewport(c, p)
      [] p.type = "update_node" -> HandleUpdateNode(c, p)
      [] p.type = "delete_node" -> HandleDeleteNode(c, p)
      [] p.type = "create_edge" -> HandleCreateEdge(c, p)
      [] p.type = "update_edge" -> HandleUpdateEdge(c, p)
      [] p.type = "delete_edge" -> HandleDeleteEdge(c, p)
      [] p.type = "add_context" -> HandleAddContext(c, p)
      [] p.type = "ask_claude" -> HandleAskClaude(c, p)
      [] p.type = "comment_ask_claude" -> HandleCommentAskClaude(c, p)
      [] p.type = "get_settings" -> HandleGetSettings(c, p)
      [] p.type = "update_settings" -> HandleUpdateSettings(c, p)
      [] OTHER -> HandlerError(c, "Unknown message type", p.id)

\* ws.on('message') taking no frame while a query is awaiting the backend
OnMessage_serialized(c, p) ==
    /\ Responsive
    /\ queries = {}
    /\ Connected(c)
    /\ readyState[c] = "OPEN"
    /\ nreq < MaxReq
    /\ nreq' = nreq + 1
    /\ UNCHANGED <<httpStatus, removeCalls>>
    /\ IF p.json = "invalid"
       THEN RejectEnvelope(c, "Unexpected token in JSON", Undefined)
       ELSE IF p.json = "null" \/ p.type \in {Undefined, NonString}
       THEN RejectEnvelope(c, "Invalid message: missing type field", Undefined)
       ELSE IF p.type \notin VALID_WS_TYPES
       THEN RejectEnvelope(c, "Unknown message type", p.id)
       ELSE IF typeofData(p.data) \notin {"undefined", "object"}
       THEN RejectEnvelope(c, "Invalid message: data must be an object", p.id)
       ELSE handleMessage(c, p)

\* ws.on('message')
OnMessage(c, p) ==
    /\ Responsive
    /\ Connected(c)
    /\ readyState[c] = "OPEN"
    /\ nreq < MaxReq
    /\ p.type \in {"ask_claude", "comment_ask_claude"} => Cardinality(queries) < MaxInflight
    /\ nreq' = nreq + 1
    /\ UNCHANGED <<httpStatus, removeCalls>>
    /\ IF p.json = "invalid"
       THEN RejectEnvelope(c, "Unexpected token in JSON", Undefined)
       ELSE IF p.json = "null" \/ p.type \in {Undefined, NonString}
       THEN RejectEnvelope(c, "Invalid message: missing type field", Undefined)
       ELSE IF p.type \notin VALID_WS_TYPES
       THEN RejectEnvelope(c, "Unknown message type", p.id)
       ELSE IF typeofData(p.data) \notin {"undefined", "object"}
       THEN RejectEnvelope(c, "Invalid message: data must be an object", p.id)
       ELSE handleMessage(c, p)


(* ------------------------ handlers at their await ---------------------- *)
\* the requests whose handler awaits the store call before it broadcasts
AwaitedTypes == {"create_node", "update_node", "delete_node"}

\* a handler at  await this.db.<call>(...): the store call has been made, what
\* is left is the broadcast of its result (type, data) or the error message;
\* boardId is the sender's board when the handler started; seq is history: the
\* number of the request
Suspended(c, type, data, error, requestId) ==
    [ws |-> c, type |-> type, data |-> data, error |-> error, requestId |-> requestId,
     boardId |-> getBoardId(c), origin |-> RegisteredOn(c), seq |-> nreq + 1]

\* ws.on('message') for create_node, update_node and delete_node, up to the
\* await of the store call: the row is written by the call, the handler goes on
\* when the promise has settled
OnMessage_await(c, p) ==
    /\ Responsive
    /\ Connected(c)
    /\ readyState[c] = "OPEN"
    /\ nreq < MaxReq
    /\ p.json = "object" /\ p.type \in AwaitedTypes /\ p.data \in {"object", "array"}
    /\ nreq' = nreq + 1
    /\ LET m == Members(p) IN
       CASE p.type = "create_node" ->
            LET parent_id == IF m.parent \in {UndefId, Null} THEN Null ELSE m.parent
                node == [NewNode(nextNode, m.ntype, parent_id, getBoardId(c)) EXCEPT
                            !.content = create_node_content(m), !.context = Text(m.context)]
            IN  IF ~createNode_accepts(m.ntype, parent_id)
                THEN /\ awaiting' = awaiting \cup
                            {Suspended(c, "error", NoData, "SQLITE_CONSTRAINT", p.id)}
                     /\ UNCHANGED store
                ELSE /\ nodes' = nodes \cup {node}
                     /\ nextNode' = nextNode + 1
                     /\ awaiting' = awaiting \cup
                            {Suspended(c, "node_created", NodeData(node), Undefined, p.id)}
                     /\ UNCHANGED <<edges, context_chain, nextEdge, nextCtx>>
         [] p.type = "update_node" ->
            LET existing == getNode(m.a)
                node == updateNode(existing, update_node_row(existing, m),
                                   update_node_fields(m))
            IN  IF existing = NoNode
                THEN /\ awaiting' = awaiting \cup
                            {Suspended(c, "error", NoData,
                                       "Node not found: " \o IdString(m.a), p.id)}
                     /\ UNCHANGED store
                ELSE IF m.parent \notin {UndefId, Null} /\ m.parent \notin NodeIdsStored
                THEN /\ awaiting' = awaiting \cup
                            {Suspended(c, "error", NoData, "SQLITE_CONSTRAINT", p.id)}
                     /\ UNCHANGED store
                ELSE /\ nodes' = (nodes \ {existing}) \cup {node}
                     /\ awaiting' = awaiting \cup
                            {Suspended(c, "node_updated", NodeData(node), Undefined, p.id)}
                     /\ UNCHANGED <<edges, context_chain, nextNode, nextEdge, nextCtx>>
         [] p.type = "delete_node" ->
            IF m.a \notin NodeIdsStored
            THEN /\ awaiting' = awaiting \cup
                        {Suspended(c, "error", NoData,
                                   "Node not found: " \o IdString(m.a), p.id)}
                 /\ UNCHANGED store
            ELSE /\ nodes' = deleteNode_nodes(m.a)
                 /\ edges' = deleteNode_edges(m.a)
                 /\ context_chain' = deleteNode_context(m.a)
                 /\ awaiting' = awaiting \cup
                        {Suspended(c, "node_deleted", IdData(m.a), Undefined, p.id)}
                 /\ UNCHANGED <<nextNode, nextEdge, nextCtx>>
    /\ UNCHANGED <<conn, registry, inbox, config, queries, httpStatus, bcastLog,
                   removeCalls, boards, projects, toolResult, hung, client>>

\* a resumed handler that hands its result to the sender alone
ResumeHandler_inbox_senderOnly(h) ==
    send(inbox, h.ws, Bcast(WSResponse(h.type, h.data, Undefined, h.requestId), 1))

\* this.broadcastToBoard({type, data, requestId}, boardId) of the resumed handler
ResumeHandler_inbox(h) ==
    broadcastToBoard(inbox, Bcast(WSResponse(h.type, h.data, Undefined, h.requestId), 1),
                     h.boardId)

\* a store call that writes the row it computed only when its promise settles
ResumeHandler_nodes_written(h) ==
    IF h.type = "node_updated" /\ h.data.node.id \in NodeIdsStored
    THEN (nodes \ {getNode(h.data.node.id)}) \cup {h.data.node}
    ELSE nodes

\* the rows after the await: the store call wrote before it returned its promise
ResumeHandler_nodes(h) == nodes

\* the promise of the store call has settled: the handler goes on behind its await
ResumeHandler(h) ==
    /\ Responsive
    /\ h \in awaiting
    /\ awaiting' = awaiting \ {h}
    /\ nodes' = ResumeHandler_nodes(h)
    /\ IF h.type = "error"
       THEN /\ inbox' = Stamp(sendError(inbox, h.ws, h.error, h.requestId), h.origin, "ws")
            /\ UNCHANGED bcastLog
       ELSE /\ inbox' = Stamp(ResumeHandler_inbox(h), h.origin, "ws")
            /\ bcastLog' = Append(bcastLog, LogEntry(h.boardId))
    /\ UNCHANGED <<conn, registry, edges, context_chain, nextNode, nextEdge, nextCtx,
                   config, queries, httpStatus, nreq, removeCalls, boards, projects,
                   toolResult, hung, client>>


(* -------------------------- query orchestrator ------------------------- *)
\* the backend's output: the k-th 'text' event of a stream carries the k-th piece,
\* and neighbouring pieces differ
Chunk(k) == <<IF k % 2 = 1 THEN "a" ELSE "b">>

\* the text of a response that was not streamed (message.content[0].text)
BatchResponse == <<"c">>

\* fullResponse += text, with the new piece put in front
accumulate_prepend(fullResponse, text) == text \o fullResponse

\* fullResponse += text
accumulate(fullResponse, text) == fullResponse \o text

\* a backend that answers a request whose user message has no content
BackendAccepts_anything(q) == TRUE

\* messages: [{ role: 'user', content: question }]: the backend answers a request
\* only if its user message has content; without it the awaited call rejects
\* (400 invalid_request_error)
BackendAccepts(q) == q.question # Undefined

\* stream.on('text') handing the chunk to every member of the caller's board
QueryChunk_broadcast(q) ==
    /\ Responsive
    /\ q \in queries
    /\ ~q.comment
    /\ q.stream
    /\ BackendAccepts(q)
    /\ Len(q.fullResponse) < MaxChunks
    /\ LET text == Chunk(Len(q.fullResponse) + 1) IN
        /\ queries' = (queries \ {q}) \cup {[q EXCEPT !.fullResponse = accumulate(@, text)]}
        /\ inbox' = Stamp(broadcastToBoard(inbox,
                            [WSResponse("claude_streaming", ChunkData(text), Undefined,
                                        q.requestId) EXCEPT !.qid = q.qid],
                            getBoardId(q.ws)),
                          q.origin, "ws")
    /\ UNCHANGED <<conn, registry, store, config, httpStatus, nreq, bcastLog, removeCalls, extra>>

\* stream.on('text'): the chunk goes to the originating connection
QueryChunk(q) ==
    /\ Responsive
    /\ q \in queries
    /\ ~q.comment
    /\ q.stream
    /\ BackendAccepts(q)
    /\ Len(q.fullResponse) < MaxChunks
    /\ LET text == Chunk(Len(q.fullResponse) + 1) IN
        /\ queries' = (queries \ {q}) \cup {[q EXCEPT !.fullResponse = accumulate(@, text)]}
        /\ inbox' = Stamp(send(inbox, q.ws,
                            [WSResponse("claude_streaming", ChunkData(text), Undefined,
                                        q.requestId) EXCEPT !.qid = q.qid]),
                          q.origin, "ws")
    /\ UNCHANGED <<conn, registry, store, config, httpStatus, nreq, bcastLog, removeCalls, extra>>

\* createAndBroadcastAgentNode announcing the node before its edge
createAndBroadcastAgentNode_inbox_nodeFirst(ib, agentNode, edge, parent_id, boardId, requestId) ==
    LET agentName == IF settings.agent_name # "" THEN settings.agent_name ELSE "Claude"
        edgeMsg == Bcast(WSResponse("edge_created", EdgeData(edge), Undefined, requestId), 2)
        nodeMsg == Bcast(WSResponse("claude_response",
                            Data("", agentNode, NoEdge, {}, {},
                                 [agent_name |-> agentName, anthropic_api_key |-> ""]),
                            Undefined, requestId), 1)
        ib1 == broadcastToBoard(ib, nodeMsg, boardId)
    IN  IF parent_id # Null THEN broadcastToBoard(ib1, edgeMsg, boardId) ELSE ib1

\* the broadcasts of createAndBroadcastAgentNode, in the order it makes them
createAndBroadcastAgentNode_inbox(ib, agentNode, edge, parent_id, boardId, requestId) ==
    LET agentName == IF settings.agent_name # "" THEN settings.agent_name ELSE "Claude"
        edgeMsg == Bcast(WSResponse("edge_created", EdgeData(edge), Undefined, requestId), 1)
        nodeMsg == Bcast(WSResponse("claude_response",
                            Data("", agentNode, NoEdge, {}, {},
                                 [agent_name |-> agentName, anthropic_api_key |-> ""]),
                            Undefined, requestId),
                         IF parent_id # Null THEN 2 ELSE 1)
        ib1 == IF parent_id # Null THEN broadcastToBoard(ib, edgeMsg, boardId) ELSE ib
    IN  broadcastToBoard(ib1, nodeMsg, boardId)

\* createAndBroadcastAgentNode creating the edge whether or not a parent was given
createAndBroadcastAgentNode_edges_always(edge, parent_id) ==
    edges \cup {edge}

\* if (parent_id) { createEdge(...) }
createAndBroadcastAgentNode_edges(edge, parent_id) ==
    IF parent_id # Null THEN edges \cup {edge} ELSE edges

\* the backend completes (finalMessage / messages.create resolves): the board is
\* looked up now, then createAndBroadcastAgentNode runs
QueryComplete(q) ==
    /\ Responsive
    /\ q \in queries
    /\ ~q.comment
    /\ BackendAccepts(q)
    /\ queries' = queries \ {q}
    /\ LET boardId == getBoardId(q.ws)
           parent_id == IF q.parent_id = UndefId THEN Null ELSE q.parent_id
           response == IF q.stream THEN q.fullResponse ELSE BatchResponse
           agentNode == [NewNode(nextNode, "conversation", parent_id, boardId) EXCEPT
                            !.question = q.question, !.response = response,
                            !.context = response, !.qid = q.qid]
           edge == NewEdge(nextEdge, parent_id, nextNode, "response")
       IN  IF ~createNode_accepts("conversation", parent_id)
           THEN /\ inbox' = Stamp(sendError(inbox, q.ws, "Claude API error: SQLITE_CONSTRAINT",
                                            q.requestId), q.origin, "ws")
                /\ UNCHANGED <<store, bcastLog>>
           ELSE /\ nodes' = nodes \cup {agentNode}
                /\ nextNode' = nextNode + 1
                /\ edges' = createAndBroadcastAgentNode_edges(edge, parent_id)
                /\ nextEdge' = IF parent_id # Null THEN nextEdge + 1 ELSE nextEdge
                /\ inbox' = StampQuery(Stamp(createAndBroadcastAgentNode_inbox(inbox, agentNode,
                                        edge, parent_id, boardId, q.requestId),
                                  q.origin, "ws"), q.qid)
                /\ bcastLog' = bcastLog \o
                        (IF parent_id # Null THEN <<LogEntry(boardId), LogEntry(boardId)>>
                         ELSE <<LogEntry(boardId)>>)
                /\ UNCHANGED <<context_chain, nextCtx>>
    /\ UNCHANGED <<conn, registry, config, httpStatus, nreq, removeCalls, extra>>

\* a comment-thread reply handed to the requester's board
CommentComplete_broadcast(q) ==
    /\ Responsive
    /\ q \in queries
    /\ q.comment
    /\ queries' = queries \ {q}
    /\ inbox' = StampQuery(Stamp(broadcastToBoard(inbox,
                        WSResponse("comment_claude_response",
                                   [IdData(q.parent_id) EXCEPT !.chunk = BatchResponse],
                                   Undefined, q.requestId), getBoardId(q.ws)),
                      q.origin, "ws"), q.qid)
    /\ UNCHANGED <<conn, registry, store, config, httpStatus, nreq, bcastLog, removeCalls, extra>>

\* the backend answers a comment-thread query: the reply goes to the requester
CommentComplete(q) ==
    /\ Responsive
    /\ q \in queries
    /\ q.comment
    /\ queries' = queries \ {q}
    /\ inbox' = StampQuery(Stamp(send(inbox, q.ws,
                        WSResponse("comment_claude_response",
                                   [IdData(q.parent_id) EXCEPT !.chunk = BatchResponse],
                                   Undefined, q.requestId)),
                      q.origin, "ws"), q.qid)
    /\ UNCHANGED <<conn, registry, store, config, httpStatus, nreq, bcastLog, removeCalls, extra>>

\* a failure path that files what was streamed so far as a node
QueryFail_keepsPartial(q) ==
    /\ Responsive
    /\ q \in queries
    /\ queries' = queries \ {q}
    /\ inbox' = StampQuery(Stamp(sendError(inbox, q.ws, "Claude API error", q.requestId),
                      q.origin, "ws"), q.qid)
    /\ nodes' = nodes \cup {[NewNode(nextNode, "conversation", Null, getBoardId(q.ws)) EXCEPT
                                !.response = q.fullResponse, !.qid = q.qid]}
    /\ nextNode' = nextNode + 1
    /\ UNCHANGED <<conn, registry, edges, context_chain, nextEdge, nextCtx, config,
                   httpStatus, nreq, bcastLog, removeCalls, extra>>

\* the backend fails (the awaited promise rejects): the catch clause of
\* handleClaudeQuery and of handleCommentClaudeQuery
QueryFail(q) ==
    /\ Responsive
    /\ q \in queries
    /\ queries' = queries \ {q}
    /\ inbox' = StampQuery(Stamp(sendError(inbox, q.ws,
                            IF BackendAccepts(q) THEN "Claude API error"
                            ELSE "Claude API error: 400 invalid_request_error",
                            q.requestId),
                      q.origin, "ws"), q.qid)
    /\ UNCHANGED <<conn, registry, store, config, httpStatus, nreq, bcastLog, removeCalls, extra>>

(* ------------------------- notification bridge ------------------------- *)
\* the body of a POST /notify: json "invalid" or "object"; event and boardId "" when missing
NotifyBodies ==
    {[json |-> "invalid", event |-> "", boardId |-> "", data |-> ""]}
    \cup {[json |-> "object", event |-> e, boardId |-> b, data |-> d] :
            e \in {"", "node_created"}, b \in {""} \cup Boards, d \in {"", "d1"}}

\* POST /notify forwarding whatever it is given
Notify_unvalidated(body) ==
    /\ Responsive
    /\ nreq < MaxReq
    /\ nreq' = nreq + 1
    /\ inbox' = Stamp(broadcastToBoard(inbox,
                        Bcast(WSResponse(body.event, PayloadData(body.data),
                                         Undefined, Undefined), 1),
                        body.boardId),
                      body.boardId, "bridge")
    /\ bcastLog' = Append(bcastLog, LogEntry(body.boardId))
    /\ httpStatus' = 200
    /\ UNCHANGED <<conn, registry, store, config, queries, removeCalls, extra>>

\* POST /notify forwarding the event to every board
Notify_toAll(body) ==
    /\ Responsive
    /\ nreq < MaxReq
    /\ nreq' = nreq + 1
    /\ IF body.json = "invalid" \/ body.event = "" \/ body.boardId = ""
       THEN /\ httpStatus' = 400
            /\ UNCHANGED <<inbox, bcastLog>>
       ELSE /\ inbox' = Stamp(broadcastToAll(inbox,
                                Bcast(WSResponse(body.event, PayloadData(body.data),
                                                 Undefined, Undefined), 1)),
                              body.boardId, "bridge")
            /\ bcastLog' = Append(bcastLog, LogEntry(body.boardId))
            /\ httpStatus' = 200
    /\ UNCHANGED <<conn, registry, store, config, queries, removeCalls, extra>>

Notify(body) ==
    /\ Responsive
    /\ nreq < MaxReq
    /\ nreq' = nreq + 1
    /\ IF body.json = "invalid" \/ body.event = "" \/ body.boardId = ""
       THEN /\ httpStatus' = 400
            /\ UNCHANGED <<inbox, bcastLog>>
       ELSE /\ inbox' = Stamp(broadcastToBoard(inbox,
                                Bcast(WSResponse(body.event, PayloadData(body.data),
                                                 Undefined, Undefined), 1),
                                body.boardId),
                              body.boardId, "bridge")
            /\ bcastLog' = Append(bcastLog, LogEntry(body.boardId))
            /\ httpStatus' = 200
    /\ UNCHANGED <<conn, registry, store, config, queries, removeCalls, extra>>

(* ------------------------------ MCP tools ------------------------------ *)
\* The tools run in a process of their own on the same database: a call changes
\* the store and returns a result; no connection hears of it.
ToolIds == 1..MaxNodes
ToolContexts == {Undefined, "x", "y"}
ToolTypes == {Undefined, "richtext"}

\* the tool process is answering calls
Serving == "mcp" \notin hung

\* the catch clause of the tool handler
ToolError(message) ==
    /\ toolResult' = ToolResult(TRUE, "Error: " \o message, NoNode, NoText)
    /\ UNCHANGED <<store, hung>>

\* the tool never returns
ToolHang ==
    /\ hung' = hung \cup {"mcp"}
    /\ UNCHANGED <<store, toolResult>>

Tool_create_node(type, context, parent_id) ==
    /\ Serving
    /\ nextNode <= MaxNodes
    /\ LET node == [NewNode(nextNode, type, parent_id, "default") EXCEPT
                        !.context = Text(context)]
       IN  IF ~createNode_accepts(type, parent_id)
           THEN ToolError("SQLITE_CONSTRAINT")
           ELSE /\ nodes' = nodes \cup {node}
                /\ nextNode' = nextNode + 1
                /\ toolResult' = ToolResult(FALSE, "node", node, NoText)
                /\ UNCHANGED <<edges, context_chain, nextEdge, nextCtx, hung>>
    /\ UNCHANGED <<conn, registry, inbox, config, queries, httpStatus, nreq, bcastLog,
                   removeCalls, boards, projects, awaiting, client>>

\* if (context) updates.context = context
Tool_update_node(id, context) ==
    /\ Serving
    /\ LET existing == getNode(id)
           fields == IF context \notin {Undefined, ""} THEN {"context"} ELSE {}
           node == updateNode(existing, [existing EXCEPT !.context = Text(context)], fields)
       IN  IF existing = NoNode
           THEN /\ toolResult' = ToolResult(TRUE, "Node not found: " \o IdString(id),
                                            NoNode, NoText)
                /\ UNCHANGED <<store, hung>>
           ELSE /\ fields # {} => existing.updated_at < MaxStamps
                /\ nodes' = (nodes \ {existing}) \cup {node}
                /\ toolResult' = ToolResult(FALSE, "node", node, NoText)
                /\ UNCHANGED <<edges, context_chain, nextNode, nextEdge, nextCtx, hung>>
    /\ UNCHANGED <<conn, registry, inbox, config, queries, httpStatus, nreq, bcastLog,
                   removeCalls, boards, projects, awaiting, client>>

Tool_delete_node(id) ==
    /\ Serving
    /\ IF id \notin NodeIdsStored
       THEN /\ toolResult' = ToolResult(FALSE, "Node not found: " \o IdString(id),
                                        NoNode, NoText)
            /\ UNCHANGED <<store, hung>>
       ELSE /\ nodes' = deleteNode_nodes(id)
            /\ edges' = deleteNode_edges(id)
            /\ context_chain' = deleteNode_context(id)
            /\ toolResult' = ToolResult(FALSE, "Deleted node: " \o IdString(id),
                                        NoNode, NoText)
            /\ UNCHANGED <<nextNode, nextEdge, nextCtx, hung>>
    /\ UNCHANGED <<conn, registry, inbox, config, queries, httpStatus, nreq, bcastLog,
                   removeCalls, boards, projects, awaiting, client>>

Tool_create_edge(source_id, target_id) ==
    /\ Serving
    /\ nextEdge <= MaxIds
    /\ IF ~createEdge_accepts(source_id, target_id)
       THEN ToolError("SQLITE_CONSTRAINT")
       ELSE /\ edges' = edges \cup {NewEdge(nextEdge, source_id, target_id, "")}
            /\ nextEdge' = nextEdge + 1
            /\ toolResult' = ToolResult(FALSE, "edge", NoNode, NoText)
            /\ UNCHANGED <<nodes, context_chain, nextNode, nextCtx, hung>>
    /\ UNCHANGED <<conn, registry, inbox, config, queries, httpStatus, nreq, bcastLog,
                   removeCalls, boards, projects, awaiting, client>>

\* addContext(node_id, text, source)
Tool_add_context(node_id) ==
    /\ Serving
    /\ nextCtx <= MaxIds
    /\ IF node_id \notin NodeIdsStored
       THEN ToolError("SQLITE_CONSTRAINT")
       ELSE /\ context_chain' = context_chain \cup {[id |-> nextCtx, node_id |-> node_id]}
            /\ nextCtx' = nextCtx + 1
            /\ toolResult' = ToolResult(FALSE, "Added context to node: " \o IdString(node_id),
                                        NoNode, NoText)
            /\ UNCHANGED <<nodes, edges, nextNode, nextEdge, hung>>
    /\ UNCHANGED <<conn, registry, inbox, config, queries, httpStatus, nreq, bcastLog,
                   removeCalls, boards, projects, awaiting, client>>

\* branchNode(parent_id, {id, type, content})
Tool_branch_conversation(parent_id, type) ==
    /\ Serving
    /\ nextNode <= MaxNodes
    /\ LET node == branchNode(parent_id, nextNode, type) IN
       IF parent_id \notin NodeIdsStored
       THEN /\ toolResult' = ToolResult(TRUE, "Parent node not found: " \o IdString(parent_id),
                                        NoNode, NoText)
            /\ UNCHANGED <<store, hung>>
       ELSE IF getInheritedContext(parent_id) = NeverReturns
       THEN ToolHang
       ELSE IF ~createNode_accepts(type, parent_id)
       THEN ToolError("SQLITE_CONSTRAINT")
       ELSE /\ nodes' = nodes \cup {node}
            /\ nextNode' = nextNode + 1
            /\ toolResult' = ToolResult(FALSE, "node", node, NoText)
            /\ UNCHANGED <<edges, context_chain, nextEdge, nextCtx, hung>>
    /\ UNCHANGED <<conn, registry, inbox, config, queries, httpStatus, nreq, bcastLog,
                   removeCalls, boards, projects, awaiting, client>>

\* get_context with include_inherited left at its default
Tool_get_context(node_id) ==
    /\ Serving
    /\ LET context == getInheritedContext(node_id) IN
       IF context = NeverReturns
       THEN ToolHang
       ELSE /\ toolResult' = ToolResult(FALSE,
                                IF context = NoText THEN "No context found" ELSE "context",
                                [NoNode EXCEPT !.id = node_id], context)
            /\ UNCHANGED <<store, hung>>
    /\ UNCHANGED <<conn, registry, inbox, config, queries, httpStatus, nreq, bcastLog,
                   removeCalls, boards, projects, awaiting, client>>

\* the tools that make, take down and read trees of nodes
TreeTools ==
    \/ \E t \in ToolTypes, x \in ToolContexts, par \in {Null} \cup ToolIds :
            Tool_create_node(t, x, par)
    \/ \E id \in ToolIds : Tool_delete_node(id)
    \/ \E par \in ToolIds, t \in ToolTypes : Tool_branch_conversation(par, t)
    \/ \E id \in ToolIds : Tool_get_context(id)

\* the tools that hang something on a node
LinkTools ==
    \/ \E a \in ToolIds, b \in ToolIds : Tool_create_edge(a, b)
    \/ \E id \in ToolIds : Tool_add_context(id)

(* ------------------------------- Next ---------------------------------- *)
\* the callbacks that take no payload
Lifecycle ==
    \/ \E c \in Conns : ClientClose(c)
    \/ \E c \in Conns : CloseEvent(c)
    \/ \E c \in Conns : ErrorEvent(c)

Continuations ==
    \/ \E q \in queries : QueryChunk(q)
    \/ \E q \in queries : QueryComplete(q)
    \/ \E q \in queries : QueryFail(q)

\* what the browser's client and its sockets do
ClientSteps ==
    \/ AppConnect
    \/ AppDisconnect
    \/ \E s \in SocketIds : SocketOpens(s)
    \/ \E s \in SocketIds : SocketCloses(s)
    \/ \E t \in SocketIds : ReconnectTimerFires(t)

Next ==
    \/ \E c \in Conns, param \in BoardParams : Connect(c, param)
    \/ \E c \in Conns, p \in Payloads : OnMessage(c, p)
    \/ Lifecycle
    \/ Continuations
    \/ \E q \in queries : CommentComplete(q)
    \/ \E body \in NotifyBodies : Notify(body)
    \/ TreeTools
    \/ LinkTools
    \/ \E id \in ToolIds, x \in ToolContexts : Tool_update_node(id, x)
    \/ ClientSteps
    \/ \E c \in Conns, p \in Payloads : OnMessage_await(c, p)
    \/ \E h \in awaiting : ResumeHandler(h)

Spec == Init /\ [][Next]_vars

(* The same program under narrower inputs. *)
\* two boards: the default one and a named one
TwoBoards == {Undefined, "b1"}

\* joins and leaves alone
NextRegistry ==
    \/ \E c \in Conns, param \in BoardParams : Connect(c, param)
    \/ Lifecycle

SpecRegistry == Init /\ [][NextRegistry]_vars

\* joins, leaves, node creations and deletions, and bridge events
BroadcastPayloads ==
    {p \in NodePayloads : p.type \in {"create_node", "delete_node"} /\ p.parent = UndefId}

BroadcastBodies ==
    {b \in NotifyBodies : b.data = "" /\
        (b.json = "invalid" \/ (b.event # "" /\ b.boardId \in {"default", "b1"}))}

NextBroadcast ==
    \/ \E c \in Conns, param \in TwoBoards : Connect(c, param)
    \/ \E c \in Conns, p \in BroadcastPayloads : OnMessage(c, p)
    \/ Lifecycle
    \/ \E body \in BroadcastBodies : Notify(body)

SpecBroadcast == Init /\ [][NextBroadcast]_vars

\* every frame is a well-formed node, edge, context or query request
GraphPayloads == NodePayloads \cup EdgePayloads \cup QueryPayloads

NextGraph ==
    \/ \E c \in Conns, param \in TwoBoards : Connect(c, param)
    \/ \E c \in Conns, p \in GraphPayloads : OnMessage(c, p)
    \/ Lifecycle
    \/ Continuations
    \/ \E body \in BroadcastBodies : Notify(body)

SpecGraph == Init /\ [][NextGraph]_vars

\* bridge events of every shape next to joins, leaves and node creations
NextBridge ==
    \/ \E c \in Conns, param \in TwoBoards : Connect(c, param)
    \/ \E c \in Conns, p \in BroadcastPayloads : OnMessage(c, p)
    \/ Lifecycle
    \/ \E body \in NotifyBodies : Notify(body)

SpecBridge == Init /\ [][NextBridge]_vars

\* queries of both variants next to a node creation and a read by any connection
QueryScenarioPayloads ==
    QueryPayloads \cup CommentPayloads
        \cup {p \in NodePayloads : p.type = "create_node" /\ p.parent = UndefId}
        \cup {p \in SettingsPayloads : p.type = "get_settings"}

NextQuery ==
    \/ \E c \in Conns, param \in TwoBoards : Connect(c, param)
    \/ \E c \in Conns, p \in QueryScenarioPayloads : OnMessage(c, p)
    \/ Lifecycle
    \/ Continuations
    \/ \E q \in queries : CommentComplete(q)

SpecQuery == Init /\ [][NextQuery]_vars

\* malformed envelopes next to one request of each outcome class: a mutation, a
\* not-found, a read, a settings change, a query
ProtocolPayloads ==
    MalformedPayloads
        \cup {p \in NodePayloads : p.type \in {"create_node", "delete_node"}
                                    /\ p.parent = UndefId /\ p.a \in {UndefId, 1}}
        \cup {p \in SettingsPayloads : p.agentName \in {Undefined, "<b></b>"}
                                        /\ p.apiKey = Undefined}
        \cup {p \in QueryPayloads : p.parent = UndefId /\ p.stream /\ p.data = "object"}

NextProtocol ==
    \/ \E c \in Conns, param \in TwoBoards : Connect(c, param)
    \/ \E c \in Conns, p \in ProtocolPayloads : OnMessage(c, p)
    \/ Lifecycle
    \/ Continuations
    \/ \E body \in BroadcastBodies : Notify(body)

SpecProtocol == Init /\ [][NextProtocol]_vars

\* the tools building and taking down trees of nodes, next to one connection
\* that reparents nodes and asks with a parent
TreePayloads ==
    {[Bare("object", "update_node", "object", "r1") EXCEPT !.a = a, !.parent = par] :
        a \in {1}, par \in {1, 2}}
    \cup {[Bare("object", "ask_claude", "object", "r1") EXCEPT
                !.parent = par, !.question = "q"] : par \in {1, 2}}

NextTree ==
    \/ \E c \in {1} : Connect(c, Undefined)
    \/ \E c \in Conns, p \in TreePayloads : OnMessage(c, p)
    \/ TreeTools

SpecTree == Init /\ [][NextTree]_vars

\* nodes with edges and context entries on them, made and deleted by the tools
NextStore ==
    \/ \E par \in {Null, 1} : Tool_create_node("richtext", Undefined, par)
    \/ \E id \in ToolIds : Tool_delete_node(id)
    \/ LinkTools

SpecStore == Init /\ [][NextStore]_vars

\* one connection creating nodes with a content and updating it in both modes
ContentObjects ==
    {EmptyObject,
     [text |-> "t1", color |-> "c1", position |-> "p0"],
     [text |-> "t2", color |-> Undefined, position |-> Undefined]}

ContentPayloads ==
    {[Bare("object", "create_node", "object", "r1") EXCEPT
            !.ntype = "richtext", !.content = o, !.position = pos] :
        o \in ContentObjects \cup {NoObject}, pos \in {Undefined, "p1"}}
    \cup {[Bare("object", "update_node", "object", "r1") EXCEPT
            !.a = a, !.content = o, !.partial = d, !.position = pos] :
        a \in Ids, o \in ContentObjects \cup {NoObject},
        d \in ContentObjects \cup {NoObject}, pos \in {Undefined, "p2"}}

NextContent ==
    \/ \E c \in {1} : Connect(c, Undefined)
    \/ \E c \in Conns, p \in ContentPayloads : OnMessage(c, p)

SpecContent == Init /\ [][NextContent]_vars

\* requests that name a node, an edge, a board or a project, stored or not
BoardPayloads ==
    {[Bare("object", t, "object", "r1") EXCEPT !.target = id] :
        t \in {"delete_board"}, id \in {Undefined, "default", "b2"}}
    \cup {[Bare("object", t, "object", "r1") EXCEPT !.target = id] :
        t \in {"delete_project"}, id \in {Undefined, "default", "p2"}}

TargetPayloads ==
    {p \in NodePayloads : p.type \in {"update_node", "delete_node"}
                          \/ (p.type = "create_node" /\ p.parent = UndefId)}
        \cup {p \in EdgePayloads : p.type \in {"update_edge", "delete_edge"}}
        \cup BoardPayloads

NextTarget ==
    \/ \E c \in Conns, param \in TwoBoards : Connect(c, param)
    \/ \E c \in Conns, p \in TargetPayloads : OnMessage(c, p)

SpecTarget == Init /\ [][NextTarget]_vars

\* settings and viewport requests, valid and not
ViewportPayloads ==
    {[Bare("object", "update_viewport", "object", "r1") EXCEPT !.x = x, !.y = y, !.zoom = z] :
        x \in JsonValues, y \in {Undefined, "0"}, z \in {"null", "5"}}

ConfigPayloads == SettingsPayloads \cup ViewportPayloads

NextConfig ==
    \/ \E c \in Conns, param \in TwoBoards : Connect(c, param)
    \/ \E c \in Conns, p \in ConfigPayloads : OnMessage(c, p)

SpecConfig == Init /\ [][NextConfig]_vars

\* joins, leaves, a node creation whose handler is suspended at its await, a
\* streamed query and bridge events
AwaitPayloads ==
    {p \in NodePayloads : p.type = "create_node" /\ p.parent = UndefId}

AwaitQueryPayloads ==
    {p \in QueryPayloads : p.parent = UndefId /\ p.stream /\ p.question # Undefined}

AwaitBodies ==
    {b \in BroadcastBodies : b.json = "object" /\ b.boardId = "default"}

NextAwait ==
    \/ \E c \in Conns, param \in TwoBoards : Connect(c, param)
    \/ \E c \in Conns, p \in AwaitPayloads : OnMessage_await(c, p)
    \/ \E h \in awaiting : ResumeHandler(h)
    \/ \E c \in Conns, p \in AwaitQueryPayloads : OnMessage(c, p)
    \/ Lifecycle
    \/ Continuations
    \/ \E body \in AwaitBodies : Notify(body)

SpecAwait == Init /\ [][NextAwait]_vars

\* one node made by a tool, and two merge-style updates of it that set different
\* members of its content, their handlers suspended at the await
MergePayloads ==
    {[Bare("object", "update_node", "object", "ra") EXCEPT
            !.a = 1, !.partial = [text |-> "t2", color |-> Undefined, position |-> Undefined]],
     [Bare("object", "update_node", "object", "rb") EXCEPT
            !.a = 1, !.position = "p2"]}

NextMerge ==
    \/ \E c \in Conns : Connect(c, Undefined)
    \/ Tool_create_node("richtext", Undefined, Null)
    \/ \E c \in Conns, p \in MergePayloads : OnMessage_await(c, p)
    \/ \E h \in awaiting : ResumeHandler(h)

SpecMerge == Init /\ [][NextMerge]_vars

\* the browser's client alone: the application's calls, the socket events and
\* the reconnect timers
NextClient == ClientSteps

SpecClient == Init /\ [][NextClient]_vars


(* ============================== properties ============================= *)
\* the board a connection joined: the connect-time parameter, 'default' when the
\* parameter is absent or empty
BoardJoined(c) ==
    IF joinParam[c] \in {Undefined, ""} THEN "default" ELSE joinParam[c]

\* a connection that has joined and for which leave has not run
Live(c) == Connected(c) /\ removeCalls[c] = 0

IsSnapshot(m) == m.type = "success" /\ m.data.sub = "initial_state"

\* how many times connection c received the k-th broadcast
Received(c, k) ==
    Cardinality({i \in 1..Len(inbox[c]) : inbox[c][i].bid = k})

\* C1: a broadcast triggered by a mutation issued on board B1 (any message that
\* was broadcast, other than the all-boards settings message) is never delivered
\* to a connection joined to another board.
C1_BoardIsolation ==
    \A c \in Conns : \A i \in 1..Len(inbox[c]) :
        (inbox[c][i].bid > 0 /\ inbox[c][i].type # "settings")
            => inbox[c][i].origin = BoardJoined(c)

\* C2: every broadcast to a board was received exactly once by each connection
\* that was a member of the board and open at that moment, and by no other
\* connection; members that were not open were skipped.
C2_ExactlyOnce ==
    \A k \in 1..Len(bcastLog) :
        bcastLog[k].board # "*" =>
            \A c \in Conns : Received(c, k) = IF c \in bcastLog[k].open THEN 1 ELSE 0

\* a broadcast that reached an open member while another member was skipped
C2_Witness ==
    \E k \in 1..Len(bcastLog) :
        /\ bcastLog[k].board # "*"
        /\ bcastLog[k].open # {}
        /\ bcastLog[k].skipped # {}
        /\ \A c \in bcastLog[k].open : Received(c, k) = 1


\* the member sets that hold connection c
BoardsHolding(c) ==
    {b \in DOMAIN boardClients : c \in boardClients[b]}

\* the two maps say the same
MapsAgree ==
    /\ \A c \in DOMAIN clientBoard :
            clientBoard[c] \in DOMAIN boardClients /\ c \in boardClients[clientBoard[c]]
    /\ \A b \in DOMAIN boardClients : \A c \in boardClients[b] :
            c \in DOMAIN clientBoard /\ clientBoard[c] = b

\* C3 as stated: each live connection is in exactly one member set, the set of the
\* board named by the connect-time parameter ('default' when the parameter is
\* absent), and the reverse map agrees.
C3_AsStated ==
    /\ MapsAgree
    /\ \A c \in Conns : Live(c) =>
            BoardsHolding(c) =
                {IF joinParam[c] = Undefined THEN "default" ELSE joinParam[c]}

\* C3 amended: each live connection is in exactly one member set, the set of the
\* board named by the connect-time parameter ('default' when the parameter is
\* absent or empty); the reverse map agrees with the member sets; and the board
\* of a connection never changes between its join and its leave.
C3_OneBoard ==
    /\ [](MapsAgree /\ \A c \in Conns : Live(c) =>
                BoardsHolding(c) = {BoardJoined(c)} /\ RegisteredOn(c) = BoardJoined(c))
    /\ [][\A c \in Conns : (Live(c) /\ Live(c)') => RegisteredOn(c)' = RegisteredOn(c)]_vars

\* a connection that joined with an empty parameter next to one that named its board
C3_Witness ==
    \E c, d \in Conns :
        /\ Live(c) /\ joinParam[c] = "" /\ RegisteredOn(c) = "default"
        /\ Live(d) /\ joinParam[d] = "b1" /\ RegisteredOn(d) = "b1"

\* C4: when leave (removeClient) completes for c, c is in no member set and has no
\* entry in the reverse map; a second leave for the same c changes nothing; and no
\* leave changes the membership of another connection.
C4_Leave ==
    [][\A c \in Conns : removeCalls'[c] > removeCalls[c] =>
            /\ c \notin DOMAIN clientBoard'
            /\ BoardsHolding(c)' = {}
            /\ removeCalls[c] >= 1 => (boardClients' = boardClients /\ clientBoard' = clientBoard)
            /\ \A d \in Conns \ {c} :
                    RegisteredOn(d)' = RegisteredOn(d) /\ BoardsHolding(d)' = BoardsHolding(d)
      ]_vars

\* leave ran twice for one connection ('error', then 'close') while another is registered
C4_Witness ==
    \E c, d \in Conns :
        /\ c # d
        /\ removeCalls[c] = 2
        /\ c \notin DOMAIN clientBoard
        /\ d \in DOMAIN clientBoard

\* the payloads that violate the envelope: not JSON, no string type, a type
\* outside the allow-list, or a data that is no object
Violating ==
    {p \in Payloads :
        \/ p.json # "object"
        \/ p.type \in {Undefined, NonString}
        \/ p.type \notin VALID_WS_TYPES
        \/ p.data \in {"null", "array", "primitive"}}

\* the messages a step appended to the inbox of c
NewIn(c) ==
    SubSeq(inbox'[c], Len(inbox[c]) + 1, Len(inbox'[c]))

\* C5: a payload that violates the envelope changes neither the graph store nor
\* the settings and is not broadcast; exactly one error message is sent, to the
\* sender only.
C5_FailClosed ==
    [][\A c \in Conns, p \in Violating : OnMessage(c, p) =>
            /\ UNCHANGED <<store, config, queries, bcastLog>>
            /\ Len(NewIn(c)) = 1
            /\ NewIn(c)[1].type = "error"
            /\ \A d \in Conns \ {c} : inbox'[d] = inbox[d]
      ]_vars

\* C6: every error message for a rejected envelope carries the envelope's id as
\* requestId when the envelope had one, whatever the violation; so does the
\* error message of a failed handler.
C6_ErrorCarriesId ==
    [][/\ \A c \in Conns, p \in Payloads :
            (OnMessage(c, p) /\ p.id # Undefined) =>
                \A i \in 1..Len(NewIn(c)) :
                    NewIn(c)[i].type = "error" => NewIn(c)[i].requestId = p.id
       /\ \A q \in queries :
            (QueryFail(q) \/ QueryComplete(q)) =>
                \A i \in 1..Len(NewIn(q.ws)) :
                    NewIn(q.ws)[i].type = "error" => NewIn(q.ws)[i].requestId = q.requestId
      ]_vars

\* C7: an error message never comes with the closing or the removal of the
\* connection it is sent to: that connection is open and a member of its board
\* before and after the step.
C7_ErrorsNotFatal ==
    [][\A c \in Conns :
            (\E i \in 1..Len(NewIn(c)) : NewIn(c)[i].type = "error") =>
                /\ readyState'[c] = "OPEN"
                /\ RegisteredOn(c) = BoardJoined(c)
                /\ RegisteredOn(c)' = BoardJoined(c)
                /\ BoardsHolding(c)' = {BoardJoined(c)}
      ]_vars

\* an error was followed by the normal answer to a later request of the same connection
C7_Witness ==
    \E c \in Conns : \E i, j \in 1..Len(inbox[c]) :
        /\ i < j
        /\ inbox[c][i].type = "error"
        /\ inbox[c][j].type = "settings" /\ inbox[c][j].bid = 0
        /\ readyState[c] = "OPEN" /\ RegisteredOn(c) = BoardJoined(c)

SeenNodes(c, j) ==
    {n.id : n \in inbox[c][1].data.nodes}
        \cup {inbox[c][k].data.node.id :
                k \in {x \in 1..j : inbox[c][x].type \in {"node_created", "claude_response"}}}

\* C10: in the stream of a query response, each edge a member receives has a
\* target node the member has already received, in its snapshot or in an earlier
\* event.
C10_NoUnseenTarget ==
    \A c \in Conns : \A i \in 1..Len(inbox[c]) :
        (inbox[c][i].type = "edge_created" /\ inbox[c][i].data.edge.label = "response")
            => inbox[c][i].data.edge.target_id \in SeenNodes(c, i - 1)


\* the parent a query asked for: none when the member is absent
ParentOf(q) == IF q.parent_id = UndefId THEN Null ELSE q.parent_id

\* the response text of a query at its completion
ResponseOf(q) == IF q.stream THEN q.fullResponse ELSE BatchResponse

MsgsOf(ib, c, qid, type) ==
    {i \in 1..Len(ib[c]) : ib[c][i].qid = qid /\ ib[c][i].type = type}

\* C12: when the backend of a streaming query fails after chunks were emitted, no
\* node and no edge is created and nothing is broadcast; the caller, if still
\* open, gets one error message carrying the request id, behind the chunks already
\* forwarded, and it is the only error of that request; nobody else gets anything.
C12_FailedStream ==
    [][\A q \in queries :
        (QueryFail(q) /\ q.stream /\ ~q.comment /\ q.fullResponse # NoText) =>
            /\ UNCHANGED <<store, bcastLog>>
            /\ \A d \in Conns \ {q.ws} : inbox'[d] = inbox[d]
            /\ Len(NewIn(q.ws)) = IF readyState[q.ws] = "OPEN" THEN 1 ELSE 0
            /\ \A i \in 1..Len(NewIn(q.ws)) :
                    NewIn(q.ws)[i].type = "error" /\ NewIn(q.ws)[i].requestId = q.requestId
            /\ Cardinality(MsgsOf(inbox', q.ws, q.qid, "error")) = Len(NewIn(q.ws))
            /\ \A d \in Conns :
                    MsgsOf(inbox', d, q.qid, "claude_response") = {}
      ]_vars

\* a caller holds two chunks of a stream and then the one error of that request,
\* and the store holds nothing
C12_Witness ==
    \E c \in Conns : \E i, j, k \in 1..Len(inbox[c]) :
        /\ i < j /\ j < k
        /\ inbox[c][i].type = "claude_streaming"
        /\ inbox[c][j].type = "claude_streaming" /\ inbox[c][j].qid = inbox[c][i].qid
        /\ inbox[c][k].type = "error" /\ inbox[c][k].qid = inbox[c][i].qid
        /\ nodes = {} /\ edges = {}
        /\ queries = {}


\* the query requests of both variants
QueryRequests ==
    {p \in Payloads : p.type \in {"ask_claude", "comment_ask_claude"}}

\* C13: with no backend configured a query of either variant is answered at once
\* by one error to the caller and is never handed to the backend, so no chunk can
\* follow; a backend that fails before its first chunk (unreachable) yields one
\* error to the caller and no chunk; in both cases no node or edge is created and
\* nothing is broadcast.
C13_NoBackend ==
    /\ [](anthropic = "" => queries = {})
    /\ [][/\ \A c \in Conns, p \in QueryRequests :
                (OnMessage(c, p) /\ anthropic = "") =>
                    /\ UNCHANGED <<store, bcastLog, queries>>
                    /\ Len(NewIn(c)) = 1
                    /\ NewIn(c)[1].type = "error" /\ NewIn(c)[1].requestId = p.id
                    /\ \A d \in Conns \ {c} : inbox'[d] = inbox[d]
          /\ \A q \in queries :
                (QueryFail(q) /\ q.fullResponse = NoText) =>
                    /\ UNCHANGED <<store, bcastLog>>
                    /\ \A d \in Conns \ {q.ws} : inbox'[d] = inbox[d]
                    /\ Len(NewIn(q.ws)) = IF readyState[q.ws] = "OPEN" THEN 1 ELSE 0
                    /\ \A i \in 1..Len(NewIn(q.ws)) :
                            NewIn(q.ws)[i].type = "error"
                                /\ NewIn(q.ws)[i].requestId = q.requestId
                    /\ \A d \in Conns : MsgsOf(inbox', d, q.qid, "claude_streaming") = {}
         ]_vars

\* with no backend configured, one connection asked in both variants and holds the
\* two errors and nothing else behind its snapshot
C13_Witness ==
    /\ anthropic = ""
    /\ \E c \in Conns :
        /\ Len(inbox[c]) = 3
        /\ inbox[c][2].type = "error" /\ inbox[c][2].error = "Claude API not configured"
        /\ inbox[c][3].type = "error" /\ inbox[c][3].error = "Claude API not configured"
    /\ nodes = {} /\ bcastLog = <<>>


\* C14: once the connection that asked a streaming query is no longer open, the
\* query sends it nothing more and puts no node and no edge into the store,
\* whatever the backend does afterwards.
C14_AbandonedStream ==
    [][\A q \in queries :
        (/\ QueryChunk(q) \/ QueryComplete(q) \/ QueryFail(q)
         /\ q.stream /\ ~q.comment
         /\ readyState[q.ws] # "OPEN") =>
            /\ inbox'[q.ws] = inbox[q.ws]
            /\ nodes' = nodes
            /\ edges' = edges
      ]_vars


\* C15: every partial-result (claude_streaming) message is sent to the connection
\* that asked and to nobody else, by a step that touches neither the store nor the
\* broadcast log; at that moment the store holds no node of that query and no
\* connection holds a claude_response of it.
C15_ChunksToCallerOnly ==
    [][\A c \in Conns : \A i \in 1..Len(NewIn(c)) :
        NewIn(c)[i].type = "claude_streaming" =>
            /\ \E q \in queries : q.qid = NewIn(c)[i].qid /\ q.ws = c /\ q.stream
            /\ NewIn(c)[i].bid = 0
            /\ \A d \in Conns \ {c} : inbox'[d] = inbox[d]
            /\ UNCHANGED <<store, bcastLog>>
            /\ \A n \in nodes' : n.qid # NewIn(c)[i].qid
            /\ \A d \in Conns : MsgsOf(inbox', d, NewIn(c)[i].qid, "claude_response") = {}
      ]_vars

\* the caller holds both chunks and the response of its query; the other member
\* of its board holds the response and no chunk
C15_Witness ==
    \E c, d \in Conns : \E k \in 1..MaxReq :
        /\ c # d
        /\ RegisteredOn(c) = RegisteredOn(d) /\ RegisteredOn(c) # ""
        /\ Cardinality(MsgsOf(inbox, c, k, "claude_streaming")) = 2
        /\ MsgsOf(inbox, c, k, "claude_response") # {}
        /\ MsgsOf(inbox, d, k, "claude_response") # {}
        /\ \A j \in 1..Len(inbox[d]) : inbox[d][j].type # "claude_streaming"


\* the chunks of query qid among the first n messages sent to c, joined in the
\* order they were sent
RECURSIVE Streamed(_, _, _)
Streamed(c, qid, n) ==
    IF n = 0 THEN NoText
    ELSE Streamed(c, qid, n - 1) \o
            (IF inbox[c][n].type = "claude_streaming" /\ inbox[c][n].qid = qid
             THEN inbox[c][n].data.chunk ELSE NoText)

IsPrefix(a, b) ==
    Len(a) <= Len(b) /\ SubSeq(b, 1, Len(a)) = a

\* C16: the chunks of a streaming request reach the caller in the order the
\* backend produced them (what the caller holds is a prefix of what was produced,
\* and all of it while the caller stays open), and the response stored in the
\* node created on completion is the concatenation of the chunks in that order.
C16_ChunkOrder ==
    /\ \A q \in queries : q.stream =>
            /\ IsPrefix(Streamed(q.ws, q.qid, Len(inbox[q.ws])), q.fullResponse)
            /\ readyState[q.ws] = "OPEN" =>
                    Streamed(q.ws, q.qid, Len(inbox[q.ws])) = q.fullResponse
    /\ \A n \in nodes : \A c \in Conns :
            n.qid > 0 =>
                /\ IsPrefix(Streamed(c, n.qid, Len(inbox[c])), n.response)
                /\ (readyState[c] = "OPEN" /\ Streamed(c, n.qid, Len(inbox[c])) # NoText) =>
                        Streamed(c, n.qid, Len(inbox[c])) = n.response

\* a caller that stayed open holds the two chunks of its stream, and the node of
\* that query holds them joined
C16_Witness ==
    \E n \in nodes : \E c \in Conns :
        /\ n.qid > 0
        /\ n.response = <<"a", "b">>
        /\ readyState[c] = "OPEN"
        /\ Streamed(c, n.qid, Len(inbox[c])) = <<"a", "b">>


\* the requests that are no queries: a node creation and a read
PlainRequests ==
    {p \in QueryScenarioPayloads : p.type \in {"create_node", "get_settings"}}

\* C17: while a query awaits the backend, a request of any other open connection,
\* on the same board or another, can be dispatched at once; it is answered (reply
\* or broadcast) by its own step, and the query stays in flight untouched.
C17_QueryBlocksNobody ==
    /\ [](\A q \in queries : \A d \in Conns \ {q.ws} :
            (Connected(d) /\ readyState[d] = "OPEN" /\ nreq < MaxReq) =>
                \A p \in PlainRequests : ENABLED OnMessage(d, p))
    /\ [][\A d \in Conns, p \in PlainRequests :
            (OnMessage(d, p) /\ queries # {}) =>
                /\ queries' = queries
                /\ Len(NewIn(d)) = 1
                /\ NewIn(d)[1].type = IF p.type = "create_node" THEN "node_created"
                                      ELSE "settings"
         ]_vars

\* a query asked first is still awaiting the backend while a connection of
\* another board holds the broadcast of its own later request
C17_Witness ==
    \E q \in queries : \E d \in Conns \ {q.ws} :
        /\ q.qid = 1
        /\ nreq = MaxReq
        /\ RegisteredOn(d) # RegisteredOn(q.ws)
        /\ \E j \in 1..Len(inbox[d]) : inbox[d][j].type = "node_created"


\* C18: a comment-thread query changes nothing in the graph store and sends
\* nothing to any connection but its requester, at its dispatch, on success and on
\* failure; the requester, if open, gets one message for it: the reply on
\* success, an error otherwise.
C18_CommentReplyOnly ==
    [][/\ \A c \in Conns, p \in CommentPayloads :
            OnMessage(c, p) =>
                /\ UNCHANGED <<store, bcastLog>>
                /\ \A d \in Conns \ {c} : inbox'[d] = inbox[d]
                /\ Len(NewIn(c)) = IF queries' # queries THEN 0 ELSE 1
                /\ \A i \in 1..Len(NewIn(c)) :
                        NewIn(c)[i].type = "error" /\ NewIn(c)[i].requestId = p.id
       /\ \A q \in queries :
            (q.comment /\ (CommentComplete(q) \/ QueryFail(q))) =>
                /\ UNCHANGED <<store, bcastLog>>
                /\ \A d \in Conns \ {q.ws} : inbox'[d] = inbox[d]
                /\ Len(NewIn(q.ws)) = IF readyState[q.ws] = "OPEN" THEN 1 ELSE 0
                /\ \A i \in 1..Len(NewIn(q.ws)) :
                        /\ NewIn(q.ws)[i].type \in {"comment_claude_response", "error"}
                        /\ NewIn(q.ws)[i].requestId = q.requestId
                        /\ NewIn(q.ws)[i].bid = 0
                /\ Cardinality(MsgsOf(inbox', q.ws, q.qid, "comment_claude_response")
                        \cup MsgsOf(inbox', q.ws, q.qid, "error")) = Len(NewIn(q.ws))
      ]_vars

\* the requester holds the reply to its comment query on an existing node; the
\* other open member of its board holds no reply, and the node is as it was created
C18_Witness ==
    \E c, d \in Conns :
        /\ c # d
        /\ RegisteredOn(c) = RegisteredOn(d) /\ RegisteredOn(c) # ""
        /\ readyState[d] = "OPEN"
        /\ \E j \in 1..Len(inbox[c]) :
                inbox[c][j].type = "comment_claude_response" /\ inbox[c][j].data.node.id = 1
        /\ \A j \in 1..Len(inbox[d]) : inbox[d][j].type # "comment_claude_response"
        /\ nodes = {NewNode(1, "richtext", Null, RegisteredOn(c))}
        /\ edges = {}


\* the bridge bodies that are no JSON or lack event or boardId
MalformedBodies ==
    {b \in NotifyBodies : b.json = "invalid" \/ b.event = "" \/ b.boardId = ""}

\* C19: a bridge body that is not valid JSON or lacks event or boardId is answered
\* with HTTP 400 and no message is sent to any connection of any board.
C19_BridgeRejects ==
    [][\A body \in MalformedBodies :
        Notify(body) =>
            /\ httpStatus' = 400
            /\ inbox' = inbox
            /\ UNCHANGED <<bcastLog, store, registry>>
      ]_vars

\* two bridge calls were rejected while two connections were open, and each
\* connection holds its snapshot only
C19_Witness ==
    /\ httpStatus = 400
    /\ nreq = MaxReq
    /\ bcastLog = <<>>
    /\ \A c \in Conns :
            Connected(c) /\ readyState[c] = "OPEN" /\ Len(inbox[c]) = 1

\* C20: a well-formed bridge body {event, boardId, data} is answered with HTTP 200
\* by the step that makes exactly one broadcast: each open member of boardId gets
\* one message whose type is the event and whose data is the data given, nobody
\* else gets anything, nothing stays queued and the graph store is unchanged.
C20_BridgeForwards ==
    [][\A body \in NotifyBodies \ MalformedBodies :
        Notify(body) =>
            /\ httpStatus' = 200
            /\ Len(bcastLog') = Len(bcastLog) + 1
            /\ bcastLog'[Len(bcastLog')].board = body.boardId
            /\ UNCHANGED <<store, registry, queries>>
            /\ \A c \in Conns :
                IF Connected(c) /\ RegisteredOn(c) = body.boardId /\ readyState[c] = "OPEN"
                THEN /\ Len(NewIn(c)) = 1
                     /\ NewIn(c)[1].type = body.event
                     /\ NewIn(c)[1].data.payload = body.data
                     /\ NewIn(c)[1].data = PayloadData(body.data)
                     /\ NewIn(c)[1].requestId = Undefined
                ELSE inbox'[c] = inbox[c]
      ]_vars

\* a bridge event with data reached the open member of b1 and not the member of
\* the default board
C20_Witness ==
    \E c, d \in Conns :
        /\ RegisteredOn(c) = "b1" /\ RegisteredOn(d) = "default"
        /\ httpStatus = 200
        /\ Len(inbox[c]) = 2
        /\ inbox[c][2].type = "node_created" /\ inbox[c][2].data.payload = "d1"
        /\ inbox[c][2].via = "bridge"
        /\ Len(inbox[d]) = 1


(* ------------------------- context inheritance ------------------------- *)
\* the nodes from the root down to node id, as the parent references give them;
\* steps bounds the walk
RECURSIVE Lineage(_, _)
Lineage(id, steps) ==
    IF id \notin NodeIdsStored \/ steps = 0 THEN <<>>
    ELSE Append(Lineage(getNode(id).parent_id, steps - 1), getNode(id))

\* following the parent references from node id ends at a node without a parent
RECURSIVE EndsAtRoot(_, _)
EndsAtRoot(id, steps) ==
    \/ id \notin NodeIdsStored
    \/ steps > 0 /\ EndsAtRoot(getNode(id).parent_id, steps - 1)

Acyclic(id) == EndsAtRoot(id, Cardinality(nodes))

\* the non-empty contexts of a sequence of nodes, in its order
RECURSIVE Fragments(_)
Fragments(ns) ==
    IF ns = <<>> THEN <<>>
    ELSE IF Head(ns).context = NoText THEN Fragments(Tail(ns))
    ELSE <<Head(ns).context>> \o Fragments(Tail(ns))

\* fragments written one after the other with a blank line before each but the first
RECURSIVE BlankLineSeparated(_)
BlankLineSeparated(fs) ==
    IF fs = <<>> THEN NoText
    ELSE IF Len(fs) = 1 THEN fs[1]
    ELSE BlankLineSeparated(SubSeq(fs, 1, Len(fs) - 1)) \o <<Sep>> \o fs[Len(fs)]

RootToLeaf(id) == BlankLineSeparated(Fragments(Lineage(id, Cardinality(nodes))))

\* C21: for a node whose ancestor chain ends at a root, getInheritedContext gives
\* the non-empty contexts of the chain from the root down to the node, separated
\* by a blank line; a node without a parent gives its own context, a missing
\* node the empty string
C21_RootToLeaf ==
    /\ \A n \in nodes : Acyclic(n.id) => getInheritedContext(n.id) = RootToLeaf(n.id)
    /\ \A n \in nodes : n.parent_id = Null => getInheritedContext(n.id) = n.context
    /\ \A id \in ToolIds \ NodeIdsStored : getInheritedContext(id) = NoText

\* get_context returned "x", blank line, "y" for a node with a parent and a
\* grandparent, one of the three having no context
C21_Witness ==
    /\ toolResult.text = "context"
    /\ toolResult.context = <<"x", Sep, "y">>
    /\ getInheritedContext(toolResult.node.id) = toolResult.context
    /\ Len(Lineage(toolResult.node.id, Cardinality(nodes))) = 3
    /\ Len(Fragments(Lineage(toolResult.node.id, Cardinality(nodes)))) = 2


\* C22: getInheritedContext returns for every stored node, whatever the parent
\* references are, and no process is left in a loop that never ends
C22_Terminates ==
    /\ \A n \in nodes : getInheritedContext(n.id) # NeverReturns
    /\ hung = {}


(* ---------------------------- node deletion ---------------------------- *)
\* the ids of the nodes that this step deletes
Deleted == NodeIdsStored \ {n.id : n \in nodes'}

\* C23: when a node is deleted, the step leaves no edge that starts or ends at
\* it, no context entry of it and no row of it; at all times every edge and
\* every context entry refers to stored nodes only
C23_DeleteCascades ==
    /\ [](/\ \A e \in edges : e.source_id \in NodeIdsStored /\ e.target_id \in NodeIdsStored
          /\ \A x \in context_chain : x.node_id \in NodeIdsStored)
    /\ [][\A id \in Deleted :
            /\ \A e \in edges' : e.source_id # id /\ e.target_id # id
            /\ \A x \in context_chain' : x.node_id # id
            /\ \A n \in nodes' : n.id # id /\ n.parent_id # id]_vars

\* node 1 had an edge and a context entry on it and was deleted by the tool;
\* node 2 is still there
C23_Witness ==
    /\ toolResult.text = "Deleted node: 1"
    /\ 1 \notin NodeIdsStored /\ 2 \in NodeIdsStored
    /\ nextEdge = 2 /\ nextCtx = 2
    /\ edges = {} /\ context_chain = {}


(* ------------------------------ branching ------------------------------ *)
\* C24: branch_conversation naming a stored parent inserts exactly one node, with
\* that parent and with the parent's inherited context as its context, and
\* returns it; naming a missing parent it returns a not-found error and inserts
\* nothing
C24_BranchCreatesChild ==
    [][\A par \in ToolIds :
        Tool_branch_conversation(par, "richtext") =>
            IF par \in NodeIdsStored
            THEN \E n \in nodes' :
                    /\ n.id \notin NodeIdsStored
                    /\ nodes' = nodes \cup {n}
                    /\ n.parent_id = par
                    /\ n.context = getInheritedContext(par)
                    /\ n.context # NeverReturns
                    /\ toolResult' = ToolResult(FALSE, "node", n, NoText)
            ELSE /\ nodes' = nodes
                 /\ toolResult'.isError
                 /\ toolResult'.text = "Parent node not found: " \o IdString(par)
      ]_vars


(* ---------------------------- node creation ---------------------------- *)
\* C25: create_node with a type and a content inserts the node and returns the
\* stored row, whether or not its parent_id names a stored node
C25_CreateAlwaysSucceeds ==
    [][\A par \in {Null} \cup ToolIds :
        Tool_create_node("richtext", Undefined, par) =>
            \E n \in nodes' :
                /\ n.id = nextNode
                /\ n.parent_id = par
                /\ nodes' = nodes \cup {n}
                /\ toolResult' = ToolResult(FALSE, "node", n, NoText)
      ]_vars


\* C26: a node whose parent_id names a stored node is on the board of that node
C26_ParentOnSameBoard ==
    \A n \in nodes :
        n.parent_id \in NodeIdsStored => getNode(n.parent_id).board_id = n.board_id


(* ---------------------------- content update --------------------------- *)
\* the update_node frames that name a stored node
UpdatesOfStored == {p \in ContentPayloads : p.type = "update_node" /\ p.a \in NodeIdsStored}

\* the row of node id after the step
After(id) == CHOOSE n \in nodes' : n.id = id

\* C27: update_node on a stored node with 'content' stores that content as it
\* is; without 'content' but with 'data' and/or 'position' it stores the previous
\* content with every member of 'data' (and the position) put over it, the other
\* members keeping their value; with none of them the content stays as it was
C27_ReplaceOrMerge ==
    [][\A c \in Conns, p \in UpdatesOfStored :
        OnMessage(c, p) =>
            /\ p.a \in {n.id : n \in nodes'}
            /\ IF p.content # NoObject
               THEN After(p.a).content = p.content
               ELSE \A k \in ContentKeys :
                        After(p.a).content[k] =
                            IF k = "position" /\ p.position # Undefined THEN p.position
                            ELSE IF p.partial # NoObject /\ p.partial[k] # Undefined
                            THEN p.partial[k]
                            ELSE getNode(p.a).content[k]
            /\ NewIn(c)[Len(NewIn(c))].type = "node_updated"
            /\ NewIn(c)[Len(NewIn(c))].data.node = After(p.a)
      ]_vars

\* node 1 was created with text t1 and colour c1 and then updated with data
\* {text: t2} and a position: the text and the position are the new ones, the
\* colour is the old one
C27_Witness ==
    /\ nreq = 2
    /\ \E n \in nodes :
        /\ n.id = 1
        /\ n.content = [text |-> "t2", color |-> "c1", position |-> "p2"]
        /\ Len(inbox[1]) = 3
        /\ inbox[1][2].type = "node_created"
        /\ inbox[1][2].data.node.content = [text |-> "t1", color |-> "c1", position |-> "p0"]
        /\ inbox[1][3].type = "node_updated"
        /\ inbox[1][3].data.node = n


(* ------------------------------ not found ------------------------------ *)
\* the requests that name a target which is not stored, and the error each gets
MissingNode(p) == p.type \in {"update_node", "delete_node"} /\ p.a \notin NodeIdsStored
MissingEdge(p) == p.type \in {"update_edge", "delete_edge"} /\ p.a \notin EdgeIdsStored
MissingBoard(p) ==
    p.type = "delete_board" /\ p.target \notin {Undefined, ""} /\ p.target \notin DOMAIN boards
MissingProject(p) ==
    p.type = "delete_project" /\ p.target \notin {Undefined, ""} /\ p.target \notin projects

NotFound(p) ==
    CASE MissingNode(p) -> "Node not found: " \o ToString(p.a)
      [] MissingEdge(p) -> "Edge not found: " \o ToString(p.a)
      [] MissingBoard(p) -> "Board not found: " \o p.target
      [] MissingProject(p) -> "Project not found: " \o p.target
      [] OTHER -> ""

\* C28: a request to update or delete a node, an edge, a board or a project that
\* is not stored is answered by exactly one error, to the requester alone, that
\* names the id; nothing is broadcast and the store stays as it is
C28_NotFound ==
    [][\A c \in Conns, p \in TargetPayloads :
        (OnMessage(c, p) /\ NotFound(p) # "") =>
            /\ UNCHANGED <<store, boards, projects, config, bcastLog>>
            /\ Len(NewIn(c)) = 1
            /\ NewIn(c)[1].type = "error"
            /\ NewIn(c)[1].error = NotFound(p)
            /\ NewIn(c)[1].requestId = p.id
            /\ NewIn(c)[1].bid = 0
            /\ \A d \in Conns \ {c} : inbox'[d] = inbox[d]
      ]_vars

\* two connections on one board; one created node 1 and then named node 2: it
\* holds the error naming 2, the other holds the creation and no error
C28_Witness ==
    \E c \in Conns, d \in Conns :
        /\ c # d
        /\ RegisteredOn(c) = RegisteredOn(d)
        /\ NodeIdsStored = {1}
        /\ Len(inbox[c]) = 3 /\ Len(inbox[d]) = 2
        /\ inbox[c][3].type = "error" /\ inbox[c][3].error = "Node not found: 2"
        /\ inbox[d][2].type = "node_created"


(* ------------------------- settings and viewport ----------------------- *)
\* the texts of the validation errors
ValidationErrors ==
    {"Viewport requires numeric x, y, and zoom values", "Agent name cannot be empty",
     "Invalid API key format"}

\* C29: a request answered with a validation error leaves the viewports, the
\* settings and the LLM client as they were
C29_RejectedChangesNothing ==
    [][\A c \in Conns, p \in ConfigPayloads :
        (OnMessage(c, p) /\ Len(NewIn(c)) = 1 /\ NewIn(c)[1].type = "error"
            /\ NewIn(c)[1].error \in ValidationErrors) =>
                UNCHANGED <<boards, settings, anthropic>>
      ]_vars


\* the keys that reach the server: by update_settings or from its environment
RawKeys == ({p.apiKey : p \in SettingsPayloads} \cup {"sk-env"}) \ {Undefined, ""}

\* the places of a message that are strings
StringsOf(m) ==
    {m.type, m.error, m.requestId, m.data.sub, m.data.payload,
     m.data.settings.agent_name, m.data.settings.anthropic_api_key,
     m.data.node.type, m.data.node.question, m.data.edge.label}

\* C30: no message sent to a connection holds a raw API key in any place; a
\* 'settings' message shows the stored key masked and shows no key when none is
\* stored
C30_KeyNeverSent ==
    \A c \in Conns : \A i \in 1..Len(inbox[c]) :
        /\ StringsOf(inbox[c][i]) \cap RawKeys = {}
        /\ inbox[c][i].type = "settings" =>
                inbox[c][i].data.settings.anthropic_api_key \in {"", maskApiKey(GoodKey)}

\* a key was stored by one connection; a connection on another board holds the
\* broadcast of the settings, with the key masked
C30_Witness ==
    /\ settings.anthropic_api_key = GoodKey
    /\ \E c \in Conns, d \in Conns :
        /\ RegisteredOn(c) # RegisteredOn(d)
        /\ Len(inbox[d]) = 2
        /\ inbox[d][2].type = "settings"
        /\ inbox[d][2].origin = RegisteredOn(c)
        /\ inbox[d][2].data.settings.anthropic_api_key = maskApiKey(GoodKey)
        /\ Len(inbox[c]) >= 2
        /\ inbox[c][Len(inbox[c])].type = "settings"


\* ask_claude requests whose data carries no question
Questionless ==
    {p \in QueryPayloads : Members(p).question = Undefined}

C33_AlwaysStamps ==
    [][\A c \in Conns, p \in UpdatesOfStored :
        OnMessage(c, p) =>
            /\ p.a \in {n.id : n \in nodes'}
            /\ After(p.a).updated_at = getNode(p.a).updated_at + 1
      ]_vars



(* --------------------------- board of a query -------------------------- *)
\* C34: whenever the backend completes a query, the node (and edge) that is
\* created is stored on the board its connection joined when it connected, and
\* every broadcast of the step is made under that board, also when the
\* connection has left the registry in the meantime.
C34_QueryOnJoinedBoard ==
    [][\A q \in queries :
        QueryComplete(q) =>
            /\ \A n \in nodes' \ nodes : n.board_id = BoardJoined(q.ws)
            /\ \A k \in (Len(bcastLog) + 1)..Len(bcastLog') :
                    bcastLog'[k].board = BoardJoined(q.ws)
      ]_vars



(* ------------------------- board of a mutation ------------------------- *)
\* the update_node and delete_node frames that name a stored node
MutationsOfStored ==
    {p \in NodePayloads : p.type \in {"update_node", "delete_node"} /\ p.a \in NodeIdsStored}

\* C35: an update_node or delete_node that changes the store or is broadcast is
\* broadcast exactly once, under the board that owns the node it names, whichever
\* board its sender has joined.
C35_OwnerBoardTold ==
    [][\A c \in Conns, p \in MutationsOfStored :
        (OnMessage(c, p) /\ (nodes' # nodes \/ bcastLog' # bcastLog)) =>
            /\ Len(bcastLog') = Len(bcastLog) + 1
            /\ bcastLog'[Len(bcastLog')].board = getNode(p.a).board_id
      ]_vars



\* C36: right after branch_conversation has inserted a child, the inherited
\* context of the child is the inherited context of its parent: every ancestor's
\* own context is in it once.
C36_BranchInheritsOnce ==
    [][\A par \in ToolIds, id \in ToolIds :
        (Tool_branch_conversation(par, "richtext") /\ id = nextNode /\ nodes' # nodes) =>
            getInheritedContext(id)' = getInheritedContext(par)'
      ]_vars



(* --------------------------- browser: reconnect ------------------------ *)
\* the reconnect timers that are set and have not run
Pending(cl) == {cl.timers[i] : i \in DOMAIN cl.timers}

\* C39: from a call of disconnect() until the application calls connect() again
\* the client stays disconnected: no step schedules a reconnect timer, creates a
\* socket or moves the state away from 'disconnected'.
C39_StaysDisconnected ==
    /\ [](client.stopped => client.state = "disconnected")
    /\ [][(client.stopped /\ client'.stopped) =>
            /\ Pending(client') \subseteq Pending(client)
            /\ Len(client'.sockets) = Len(client.sockets)
         ]_vars


\* C40: the sockets that reconnect timers have created since the last
\* successful open are never more than maxReconnectAttempts, and neither is the
\* attempt counter; a close event that finds the counter at the limit emits
\* 'max_reconnect_attempts' and schedules nothing, and no timer creates a socket
\* after that until a socket has opened; every open sets the counter to 0.
C40_BoundedReconnects ==
    /\ [](client.sinceOpen <= MaxReconnectAttempts)
    /\ [](client.reconnectAttempts <= MaxReconnectAttempts)
    /\ [][/\ \A s \in SocketIds : SocketOpens(s) => client'.reconnectAttempts = 0
          /\ \A s \in SocketIds :
                (SocketCloses(s) /\ client.reconnectAttempts >= MaxReconnectAttempts) =>
                    /\ client'.emitted = client.emitted + 1
                    /\ client'.timers = client.timers
         ]_vars



(* --------------------------- handlers and await ------------------------ *)
\* C32: while a handler stands between its store mutation and the broadcast of
\* its result, the server processes no other inbound message, of a connection or
\* of the notification bridge; and the handlers broadcast in the order in which
\* they changed the store.
C32_HandlersAtomic ==
    [][/\ awaiting # {} =>
            /\ nreq' = nreq
            /\ ~(\E body \in AwaitBodies : Notify(body))
       /\ \A h \in awaiting :
            ResumeHandler(h) => \A g \in awaiting : g.seq >= h.seq
      ]_vars


\* the request with this id was answered by a node_updated broadcast
Acked(id) ==
    \E c \in Conns : \E i \in 1..Len(inbox[c]) :
        inbox[c][i].type = "node_updated" /\ inbox[c][i].requestId = id

\* C37: two merge-style update_node requests on one node that set different
\* members of its content both take effect, however their handlers interleave:
\* each write starts from the row as stored at that moment and changes only the
\* members it names, nothing is written behind the await, and once both requests
\* were answered the stored content holds both new values.
C37_NoLostUpdate ==
    /\ []((Acked("ra") /\ Acked("rb")) =>
            /\ getNode(1).content["text"] = "t2"
            /\ getNode(1).content["position"] = "p2")
    /\ [][/\ \A c \in Conns, p \in MergePayloads :
                (OnMessage_await(c, p) /\ p.a \in NodeIdsStored) =>
                    \A k \in ContentKeys :
                        After(p.a).content[k] =
                            IF k = "position" /\ p.position # Undefined THEN p.position
                            ELSE IF p.partial # NoObject /\ p.partial[k] # Undefined
                            THEN p.partial[k]
                            ELSE getNode(p.a).content[k]
          /\ \A h \in awaiting : ResumeHandler(h) => nodes' = nodes
         ]_vars

\* both updates were made before either handler went on, and the handlers went
\* on in the other order: a connection got the later row first and the earlier
\* one last, and the stored row holds both values
C37_Witness ==
    /\ awaiting = {}
    /\ getNode(1).content["text"] = "t2"
    /\ getNode(1).content["position"] = "p2"
    /\ \E c \in Conns :
        /\ Len(inbox[c]) = 3
        /\ inbox[c][2].type = "node_updated" /\ inbox[c][2].requestId = "rb"
        /\ inbox[c][2].data.node.content["text"] = "t2"
        /\ inbox[c][3].type = "node_updated" /\ inbox[c][3].requestId = "ra"
        /\ inbox[c][3].data.node.content["position"] = Undefined


\* the stored nodes whose creating handler has not broadcast yet
PendingCreation ==
    {h.data.node.id : h \in {g \in awaiting : g.type = "node_created"}}

\* C38: a connection that has joined a board, is registered and open, holds
\* every node stored on that board, in its snapshot or in a creation event
\* behind it, unless the handler that created the node has not broadcast yet.
C38_NoMissedNode ==
    \A c \in Conns :
        (Live(c) /\ readyState[c] = "OPEN") =>
            \A n \in nodes :
                (n.board_id = BoardJoined(c) /\ n.id \notin PendingCreation) =>
                    n.id \in SeenNodes(c, Len(inbox[c]))

\* a connection joined between the insert of node 1 and the broadcast of it: the
\* node is in its snapshot and the creation event came behind it
C38_Witness ==
    \E c \in Conns :
        /\ Live(c) /\ readyState[c] = "OPEN"
        /\ Len(inbox[c]) = 2
        /\ 1 \in {n.id : n \in inbox[c][1].data.nodes}
        /\ inbox[c][2].type = "node_created"
        /\ inbox[c][2].data.node.id = 1

=============================================================================
